---- MODULE Spec2Model ----
(***************************************************************************)
(* Model of the progressive multiple-sequence aligner MSAAligner           *)
(* (src/alignment.cpp, src/src/alignment.cpp, src/alignment.h).            *)
(*                                                                         *)
(* A std::string is a sequence of one-character strings.  A double is an   *)
(* exact rational: distances are records [num, den] in lowest terms, and   *)
(* profile frequencies are fixed-point integers with unit One (a common    *)
(* multiple of every num_sequences that can occur), so that the products   *)
(* and quotients of alignProfiles are exact.  Rounding of IEEE doubles is   *)
(* modelled in SpecTreeIEEE only, which holds the distances of the matrix  *)
(* and of the guide tree as binary64 values rounded after every operation. *)
(* shared_ptr<TreeNode> is a handle into an arena of nodes, 0 being        *)
(* nullptr.  Sequence indices are 0-based as in the code; TLA+ sequences   *)
(* are 1-based, hence the +1 at every subscript.                           *)
(***************************************************************************)
EXTENDS Integers, Sequences, FiniteSets, TLC

(***************************************************************************)
(* Bounds of the model.                                                    *)
(***************************************************************************)
MaxSeqs == 3
MaxTotal == 4
MaxPairLen == 3
MaxDistSeqs == 2
MaxDistLen == 2
MaxCallSeqs == 2
MaxCalls == 2
MaxTreeSeqs == 4
MaxRuns == 3
MaxIEEESeqs == 2

(***************************************************************************)
(* Program constants.                                                      *)
(***************************************************************************)
DNA_ALPHABET == <<"A", "T", "C", "G">>
ALPHABET_SIZE == 4
match_score == 2
mismatch_score == 0 - 1
gap_penalty == 0 - 2
gap_extension_penalty == 0 - 1
GAP == "-"

(***************************************************************************)
(* std::toupper on the characters the inputs are built from.               *)
(***************************************************************************)
toupper(c) ==
    CASE c = "a" -> "A"
      [] c = "t" -> "T"
      [] c = "c" -> "C"
      [] c = "g" -> "G"
      [] c = "n" -> "N"
      [] OTHER -> c

\* Let(v, Body) is Body(v) with v evaluated exactly once: a local variable of the
\* code that is assigned once and read many times.
Let(v, Body(_)) == CHOOSE r \in {Body(x) : x \in {v}} : TRUE
Let2(v, w, Body(_, _)) == CHOOSE r \in {Body(x, y) : x \in {v}, y \in {w}} : TRUE

Min(x, y) == IF x < y THEN x ELSE y
Max(x, y) == IF x > y THEN x ELSE y

(***************************************************************************)
(* Exact rationals standing for the doubles of the distance matrix and of  *)
(* the guide tree.                                                         *)
(***************************************************************************)
RECURSIVE GCD(_, _)
GCD(x, y) == IF y = 0 THEN x ELSE Let(x % y, LAMBDA r : GCD(y, r))

Rat(n, d) == Let2(n, d, LAMBDA nv, dv : Let(GCD(nv, dv), LAMBDA g :
    IF g = 0 THEN [num |-> nv, den |-> dv] ELSE [num |-> nv \div g, den |-> dv \div g]))
RatZero == [num |-> 0, den |-> 1]
RatOne == [num |-> 1, den |-> 1]
\* std::numeric_limits<double>::max(): above every distance
DBL_MAX == [num |-> 1, den |-> 0]
RatLess(x, y) == x.num * y.den < y.num * x.den
RatLeq(x, y) == x.num * y.den <= y.num * x.den
RatAdd(x, y) == Let2(x, y, LAMBDA a, b : Rat(a.num * b.den + b.num * a.den, a.den * b.den))
RatSub(x, y) == Rat(x.num * y.den - y.num * x.den, x.den * y.den)
RatDivInt(x, k) == Rat(x.num, x.den * k)

(***************************************************************************)
(* calculateSequenceDistance and calculateDistanceMatrix.                  *)
(***************************************************************************)
RECURSIVE CountMatches(_, _, _, _)
\* the loop of lines 96-101: i runs over 0..min_length-1
CountMatches(seq1, seq2, i, min_length) ==
    IF i >= min_length THEN 0
    ELSE (IF toupper(seq1[i + 1]) = toupper(seq2[i + 1]) THEN 1 ELSE 0)
         + CountMatches(seq1, seq2, i + 1, min_length)

\* variant: the identity is taken over the length of the first argument
calculateSequenceDistance_ByFirstLength(seq1, seq2) ==
    IF Len(seq1) = 0 \/ Len(seq2) = 0 THEN RatOne
    ELSE LET min_length == Min(Len(seq1), Len(seq2))
             matches == CountMatches(seq1, seq2, 0, min_length)
         IN  RatSub(RatOne, Rat(matches, Len(seq1)))

\* variant: the identity is taken over the overlap (min_length)
calculateSequenceDistance_ByMinLength(seq1, seq2) ==
    IF Len(seq1) = 0 \/ Len(seq2) = 0 THEN RatOne
    ELSE LET min_length == Min(Len(seq1), Len(seq2))
             matches == CountMatches(seq1, seq2, 0, min_length)
         IN  RatSub(RatOne, Rat(matches, min_length))

\* variant: an empty input counts as identical to anything (distance 0.0)
calculateSequenceDistance_EmptyIsIdentical(seq1, seq2) ==
    IF Len(seq1) = 0 \/ Len(seq2) = 0 THEN RatZero
    ELSE LET min_length == Min(Len(seq1), Len(seq2))
             max_length == Max(Len(seq1), Len(seq2))
             matches == CountMatches(seq1, seq2, 0, min_length)
         IN  RatSub(RatOne, Rat(matches, max_length))

calculateSequenceDistance(seq1, seq2) ==
    IF Len(seq1) = 0 \/ Len(seq2) = 0 THEN RatOne
    ELSE LET min_length == Min(Len(seq1), Len(seq2))
             max_length == Max(Len(seq1), Len(seq2))
             matches == CountMatches(seq1, seq2, 0, min_length)
             identity == Rat(matches, max_length)
         IN  RatSub(RatOne, identity)

\* matrix[i][j] = matrix[j][i] = distance(sequences[i], sequences[j]) for i < j
calculateDistanceMatrix(sequences) ==
    LET n == Len(sequences) IN
    [i \in 0 .. n - 1 |-> [j \in 0 .. n - 1 |->
        IF i = j THEN RatZero
        ELSE calculateSequenceDistance(sequences[Min(i, j) + 1].sequence,
                                       sequences[Max(i, j) + 1].sequence)]]

(***************************************************************************)
(* TreeNode and buildGuideTree (UPGMA).  A tree is [arena, root]: arena is  *)
(* the sequence of all nodes allocated by make_shared, root a handle into   *)
(* it; the vector `nodes` of the code holds handles.                       *)
(***************************************************************************)
\* TreeNode(int id = -1) : id(id), distance(0.0), left(nullptr), right(nullptr)
TreeNode(id) ==
    [id |-> id, distance |-> RatZero, left |-> 0, right |-> 0, sequences |-> <<>>]

NullTree == [arena |-> <<>>, root |-> 0]

\* lines 112-118: one leaf per input index, holding its own index
LeafNodes(n) ==
    [arena |-> [i \in 1 .. n |-> [TreeNode(i - 1) EXCEPT !.sequences = <<i - 1>>]],
     nodes |-> [i \in 1 .. n |-> i]]

RECURSIVE SumRow(_, _, _, _)
\* inner loop of lines 130-132 for one si
SumRow(distance_matrix, si, sjs, k) ==
    IF k > Len(sjs) THEN RatZero
    ELSE RatAdd(distance_matrix[si][sjs[k]], SumRow(distance_matrix, si, sjs, k + 1))

RECURSIVE SumPairs(_, _, _, _)
SumPairs(distance_matrix, sis, sjs, k) ==
    IF k > Len(sis) THEN RatZero
    ELSE RatAdd(SumRow(distance_matrix, sis[k], sjs, 1),
                SumPairs(distance_matrix, sis, sjs, k + 1))

\* lines 128-134: mean of distance_matrix[si][sj] over the members of two nodes
LinkageDistance(distance_matrix, ni, nj) ==
    RatDivInt(SumPairs(distance_matrix, ni.sequences, nj.sequences, 1),
              Len(ni.sequences) * Len(nj.sequences))

RECURSIVE ScanPairs_LastTie(_, _, _, _, _, _)
\* variant: a pair as close as the best so far replaces it (<= for <)
ScanPairs_LastTie(arena, nodes, distance_matrix, i, j, best) ==
    IF i >= Len(nodes) THEN best
    ELSE IF j >= Len(nodes)
         THEN ScanPairs_LastTie(arena, nodes, distance_matrix, i + 1, i + 2, best)
    ELSE Let(LinkageDistance(distance_matrix, arena[nodes[i + 1]], arena[nodes[j + 1]]),
             LAMBDA dist :
                 IF RatLeq(dist, best.min_distance)
                 THEN ScanPairs_LastTie(arena, nodes, distance_matrix, i, j + 1,
                                        [min_i |-> i, min_j |-> j, min_distance |-> dist])
                 ELSE ScanPairs_LastTie(arena, nodes, distance_matrix, i, j + 1, best))

RECURSIVE ScanPairs(_, _, _, _, _, _)
\* lines 126-142: i, j are 0-based positions in nodes; best is (min_i, min_j, min_distance)
ScanPairs(arena, nodes, distance_matrix, i, j, best) ==
    IF i >= Len(nodes) THEN best
    ELSE IF j >= Len(nodes)
         THEN ScanPairs(arena, nodes, distance_matrix, i + 1, i + 2, best)
    ELSE Let(LinkageDistance(distance_matrix, arena[nodes[i + 1]], arena[nodes[j + 1]]),
             LAMBDA dist :
                 IF RatLess(dist, best.min_distance)
                 THEN ScanPairs(arena, nodes, distance_matrix, i, j + 1,
                                [min_i |-> i, min_j |-> j, min_distance |-> dist])
                 ELSE ScanPairs(arena, nodes, distance_matrix, i, j + 1, best))

\* lines 122-142
ClosestPair(arena, nodes, distance_matrix) ==
    ScanPairs(arena, nodes, distance_matrix, 0, 1,
              [min_i |-> 0, min_j |-> 1, min_distance |-> DBL_MAX])

\* vector::erase(begin() + k), k 0-based
Erase(v, k) == [x \in 1 .. Len(v) - 1 |-> IF x <= k THEN v[x] ELSE v[x + 1]]

\* variant: the new node takes nodes[min_i] as both children
UPGMAStep_LeftTwice(st, distance_matrix) ==
    Let(ClosestPair(st.arena, st.nodes, distance_matrix), LAMBDA best :
        LET li == st.nodes[best.min_i + 1]
            rj == st.nodes[best.min_j + 1]
            new_node == [id |-> 0 - 1,
                         distance |-> RatDivInt(best.min_distance, 2),
                         left |-> li,
                         right |-> li,
                         sequences |-> st.arena[li].sequences \o st.arena[rj].sequences]
            erased == IF best.min_i < best.min_j
                      THEN Erase(Erase(st.nodes, best.min_j), best.min_i)
                      ELSE Erase(Erase(st.nodes, best.min_i), best.min_j)
        IN  [arena |-> Append(st.arena, new_node),
             nodes |-> Append(erased, Len(st.arena) + 1)])

\* variant: only the second selected node is erased from the active list
UPGMAStep_KeepLeft(st, distance_matrix) ==
    Let(ClosestPair(st.arena, st.nodes, distance_matrix), LAMBDA best :
        LET li == st.nodes[best.min_i + 1]
            rj == st.nodes[best.min_j + 1]
            new_node == [id |-> 0 - 1,
                         distance |-> RatDivInt(best.min_distance, 2),
                         left |-> li,
                         right |-> rj,
                         sequences |-> st.arena[li].sequences \o st.arena[rj].sequences]
            erased == Erase(st.nodes, best.min_j)
        IN  [arena |-> Append(st.arena, new_node),
             nodes |-> Append(erased, Len(st.arena) + 1)])

\* variant: the new node is put at the front of the active list
UPGMAStep_InsertFront(st, distance_matrix) ==
    Let(ClosestPair(st.arena, st.nodes, distance_matrix), LAMBDA best :
        LET li == st.nodes[best.min_i + 1]
            rj == st.nodes[best.min_j + 1]
            new_node == [id |-> 0 - 1,
                         distance |-> RatDivInt(best.min_distance, 2),
                         left |-> li,
                         right |-> rj,
                         sequences |-> st.arena[li].sequences \o st.arena[rj].sequences]
            erased == IF best.min_i < best.min_j
                      THEN Erase(Erase(st.nodes, best.min_j), best.min_i)
                      ELSE Erase(Erase(st.nodes, best.min_i), best.min_j)
        IN  [arena |-> Append(st.arena, new_node),
             nodes |-> <<Len(st.arena) + 1>> \o erased])

\* variant: the new node's distance is the selected distance, not half of it
UPGMAStep_FullDistance(st, distance_matrix) ==
    Let(ClosestPair(st.arena, st.nodes, distance_matrix), LAMBDA best :
        LET li == st.nodes[best.min_i + 1]
            rj == st.nodes[best.min_j + 1]
            new_node == [id |-> 0 - 1,
                         distance |-> best.min_distance,
                         left |-> li,
                         right |-> rj,
                         sequences |-> st.arena[li].sequences \o st.arena[rj].sequences]
            erased == IF best.min_i < best.min_j
                      THEN Erase(Erase(st.nodes, best.min_j), best.min_i)
                      ELSE Erase(Erase(st.nodes, best.min_i), best.min_j)
        IN  [arena |-> Append(st.arena, new_node),
             nodes |-> Append(erased, Len(st.arena) + 1)])

\* lines 144-165: one iteration of the UPGMA loop body
UPGMAStep(st, distance_matrix) ==
    Let(ClosestPair(st.arena, st.nodes, distance_matrix), LAMBDA best :
        LET li == st.nodes[best.min_i + 1]
            rj == st.nodes[best.min_j + 1]
            new_node == [id |-> 0 - 1,
                         distance |-> RatDivInt(best.min_distance, 2),
                         left |-> li,
                         right |-> rj,
                         sequences |-> st.arena[li].sequences \o st.arena[rj].sequences]
            erased == IF best.min_i < best.min_j
                      THEN Erase(Erase(st.nodes, best.min_j), best.min_i)
                      ELSE Erase(Erase(st.nodes, best.min_i), best.min_j)
        IN  [arena |-> Append(st.arena, new_node),
             nodes |-> Append(erased, Len(st.arena) + 1)])

RECURSIVE UPGMALoop(_, _)
\* lines 121-166: while (nodes.size() > 1)
UPGMALoop(st, distance_matrix) ==
    IF Len(st.nodes) > 1
    THEN Let(UPGMAStep(st, distance_matrix), LAMBDA st2 : UPGMALoop(st2, distance_matrix))
    ELSE st

buildGuideTree(sequences, distance_matrix) ==
    Let2(LeafNodes(Len(sequences)), distance_matrix, LAMBDA leaves, dm :
        Let(UPGMALoop(leaves, dm), LAMBDA st :
            [arena |-> st.arena, root |-> IF Len(st.nodes) = 0 THEN 0 ELSE st.nodes[1]]))

(***************************************************************************)
(* The doubles of the distance matrix and of the guide tree as IEEE-754    *)
(* binary64 values, rounded to nearest, ties to even, after every          *)
(* operation as the compiled code rounds them.  Only finite values >= 0    *)
(* occur.  A double is [bits, exp]: bits holds the DBL_MANT_DIG bits of    *)
(* the significand, most significant first and starting with 1, exp is the *)
(* power of two of the last bit; the value is bits * 2^exp.  Zero has no   *)
(* bits.                                                                   *)
(***************************************************************************)
\* the precision of the type double of TreeNode::distance
DBL_MANT_DIG == 53

Zeros(n) == [k \in 1 .. n |-> 0]

DoubleZero == [bits |-> <<>>, exp |-> 0]
DoubleOne == [bits |-> <<1>> \o Zeros(DBL_MANT_DIG - 1), exp |-> 1 - DBL_MANT_DIG]
\* std::numeric_limits<double>::max()
DoubleMax == [bits |-> [k \in 1 .. DBL_MANT_DIG |-> 1], exp |-> 1024 - DBL_MANT_DIG]

\* the position of the first 1 of a bit string, 0 if there is none
FirstOne(bs) ==
    IF \E k \in 1 .. Len(bs) : bs[k] = 1
    THEN CHOOSE k \in 1 .. Len(bs) : bs[k] = 1 /\ \A l \in 1 .. (k - 1) : bs[l] = 0
    ELSE 0

\* the bit string plus one; one bit longer when every bit was 1
Increment(bs) ==
    IF \A k \in 1 .. Len(bs) : bs[k] = 1
    THEN <<1>> \o Zeros(Len(bs))
    ELSE LET z == CHOOSE k \in 1 .. Len(bs) :
                      bs[k] = 0 /\ \A l \in (k + 1) .. Len(bs) : bs[l] = 1
         IN  [k \in 1 .. Len(bs) |-> IF k < z THEN bs[k] ELSE IF k = z THEN 1 ELSE 0]

\* The double nearest to bs * 2^e (+ a non-zero rest below the last bit when
\* sticky holds): round to nearest, ties to even.
RoundToDouble(bs, e, sticky) ==
    Let(FirstOne(bs), LAMBDA f :
        IF f = 0 THEN DoubleZero
        ELSE Let(SubSeq(bs, f, Len(bs)), LAMBDA s :
             IF Len(s) <= DBL_MANT_DIG
             THEN [bits |-> s \o Zeros(DBL_MANT_DIG - Len(s)),
                   exp |-> e - (DBL_MANT_DIG - Len(s))]
             ELSE LET kept == SubSeq(s, 1, DBL_MANT_DIG)
                      half == s[DBL_MANT_DIG + 1] = 1
                      rest == sticky \/ \E k \in (DBL_MANT_DIG + 2) .. Len(s) : s[k] = 1
                      up == half /\ (rest \/ kept[DBL_MANT_DIG] = 1)
                      e2 == e + (Len(s) - DBL_MANT_DIG)
                  IN  IF ~up THEN [bits |-> kept, exp |-> e2]
                      ELSE Let(Increment(kept), LAMBDA inc :
                           IF Len(inc) > DBL_MANT_DIG
                           THEN [bits |-> SubSeq(inc, 1, DBL_MANT_DIG), exp |-> e2 + 1]
                           ELSE [bits |-> inc, exp |-> e2])))

RECURSIVE IntBits(_)
\* the binary digits of a natural number
IntBits(n) == IF n = 0 THEN <<>> ELSE IntBits(n \div 2) \o <<n % 2>>

\* static_cast<double>(n) of a small natural number: exact
DoubleOfInt(n) == RoundToDouble(IntBits(n), 0, FALSE)

\* the carry into position k of a + b for bit strings of equal length: the
\* nearest position below k where both bits are equal decides it
CarryInto(a, b, k) ==
    IF \E j \in (k + 1) .. Len(a) : a[j] = b[j]
    THEN a[CHOOSE j \in (k + 1) .. Len(a) :
               a[j] = b[j] /\ \A l \in (k + 1) .. (j - 1) : a[l] # b[l]]
    ELSE 0

\* a + b for bit strings of equal length; the sum is one bit longer
AddBits(a, b) ==
    [k \in 1 .. (Len(a) + 1) |->
        IF k = 1 THEN CarryInto(a, b, 0)
        ELSE (a[k - 1] + b[k - 1] + CarryInto(a, b, k - 1)) % 2]

\* the borrow out of position k of a - b: the nearest position below k where
\* the bits differ decides it
BorrowInto(a, b, k) ==
    IF \E j \in (k + 1) .. Len(a) : a[j] # b[j]
    THEN b[CHOOSE j \in (k + 1) .. Len(a) :
               a[j] # b[j] /\ \A l \in (k + 1) .. (j - 1) : a[l] = b[l]]
    ELSE 0

\* a - b for bit strings of equal length with a >= b
SubBits(a, b) == [k \in 1 .. Len(a) |-> (a[k] - b[k] - BorrowInto(a, b, k)) % 2]

\* the bits of x and y written over the same last exponent and length
AlignedBits(x, y) ==
    LET e == Min(x.exp, y.exp)
        xb == x.bits \o Zeros(x.exp - e)
        yb == y.bits \o Zeros(y.exp - e)
        len == Max(Len(xb), Len(yb))
    IN  [x |-> Zeros(len - Len(xb)) \o xb, y |-> Zeros(len - Len(yb)) \o yb, exp |-> e]

\* x < y on doubles
DoubleLess(x, y) ==
    IF y.bits = <<>> THEN FALSE
    ELSE IF x.bits = <<>> THEN TRUE
    ELSE IF x.exp # y.exp THEN x.exp < y.exp
    ELSE \E k \in 1 .. DBL_MANT_DIG :
             /\ x.bits[k] < y.bits[k]
             /\ \A l \in 1 .. (k - 1) : x.bits[l] = y.bits[l]

\* x + y on doubles
DoubleAdd(x, y) ==
    IF x.bits = <<>> THEN y
    ELSE IF y.bits = <<>> THEN x
    ELSE Let(AlignedBits(x, y), LAMBDA al :
             RoundToDouble(AddBits(al.x, al.y), al.exp, FALSE))

\* x - y on doubles with x >= y
DoubleSub(x, y) ==
    IF y.bits = <<>> THEN x
    ELSE Let(AlignedBits(x, y), LAMBDA al :
             RoundToDouble(SubBits(al.x, al.y), al.exp, FALSE))

RECURSIVE BitsValue(_)
\* the number a short bit string stands for
BitsValue(bs) ==
    IF bs = <<>> THEN 0 ELSE 2 * BitsValue(SubSeq(bs, 1, Len(bs) - 1)) + bs[Len(bs)]

\* the 16 binary digits of a number below 2^16
ChunkBits(v) == [k \in 1 .. 16 |-> (v \div 2 ^ (16 - k)) % 2]

RECURSIVE DivFrom(_, _, _, _, _)
\* long division of a bit string by a positive number below 2^15, 16 bits
\* at a time; c is the number of the next chunk of 16 bits
DivFrom(bs, d, c, rem, acc) ==
    IF 16 * c > Len(bs) THEN [quotient |-> acc, rem |-> rem]
    ELSE Let(rem * 2 ^ 16 + BitsValue(SubSeq(bs, 16 * c - 15, 16 * c)), LAMBDA cur :
             Let(acc \o ChunkBits(cur \div d), LAMBDA acc2 :
                 DivFrom(bs, d, c + 1, cur % d, acc2)))

\* x / d on doubles, d a small positive whole number (exact as a double):
\* the quotient is carried far enough below the last kept bit to round it
DoubleDivInt(x, d) ==
    IF x.bits = <<>> THEN DoubleZero
    ELSE Let(Len(IntBits(d)) + 2, LAMBDA extra :
         Let(Zeros((16 - ((DBL_MANT_DIG + extra) % 16)) % 16) \o x.bits \o Zeros(extra),
             LAMBDA dividend :
         Let(DivFrom(dividend, d, 1, 0, <<>>), LAMBDA q :
             RoundToDouble(q.quotient, x.exp - extra, q.rem # 0))))

\* x / 2.0: exact
DoubleHalf(x) == IF x.bits = <<>> THEN x ELSE [x EXCEPT !.exp = @ - 1]

\* calculateSequenceDistance on doubles
calculateSequenceDistanceIEEE(seq1, seq2) ==
    IF Len(seq1) = 0 \/ Len(seq2) = 0 THEN DoubleOne
    ELSE LET min_length == Min(Len(seq1), Len(seq2))
             max_length == Max(Len(seq1), Len(seq2))
             matches == CountMatches(seq1, seq2, 0, min_length)
             identity == DoubleDivInt(DoubleOfInt(matches), max_length)
         IN  DoubleSub(DoubleOne, identity)

\* calculateDistanceMatrix on doubles
calculateDistanceMatrixIEEE(sequences) ==
    LET n == Len(sequences)
        upper == [i \in 0 .. n - 1 |-> [j \in 0 .. n - 1 |->
                    IF i < j THEN calculateSequenceDistanceIEEE(sequences[i + 1].sequence,
                                                                sequences[j + 1].sequence)
                    ELSE DoubleZero]]
    IN  Let(upper, LAMBDA u :
            [i \in 0 .. n - 1 |-> [j \in 0 .. n - 1 |->
                IF i = j THEN DoubleZero ELSE u[Min(i, j)][Max(i, j)]]])

\* lines 112-118 with the distance 0.0 of the constructor as a double
LeafNodesIEEE(n) ==
    [arena |-> [k \in 1 .. n |->
                   [id |-> k - 1, distance |-> DoubleZero, left |-> 0, right |-> 0,
                    sequences |-> <<k - 1>>]],
     nodes |-> [k \in 1 .. n |-> k]]

RECURSIVE SumPairsIEEE(_, _, _, _, _, _)
\* lines 128-132: dist += distance_matrix[si][sj], si in the outer loop and
\* sj in the inner loop; a, b are 1-based positions in the member lists
SumPairsIEEE(distance_matrix, sis, sjs, a, b, dist) ==
    IF a > Len(sis) THEN dist
    ELSE IF b > Len(sjs) THEN SumPairsIEEE(distance_matrix, sis, sjs, a + 1, 1, dist)
    ELSE Let(DoubleAdd(dist, distance_matrix[sis[a]][sjs[b]]), LAMBDA dist2 :
             SumPairsIEEE(distance_matrix, sis, sjs, a, b + 1, dist2))

\* lines 128-134 on doubles
LinkageDistanceIEEE(distance_matrix, ni, nj) ==
    DoubleDivInt(SumPairsIEEE(distance_matrix, ni.sequences, nj.sequences, 1, 1, DoubleZero),
                 Len(ni.sequences) * Len(nj.sequences))

RECURSIVE ScanPairsIEEE(_, _, _, _, _, _)
\* lines 126-142 on doubles
ScanPairsIEEE(arena, nodes, distance_matrix, i, j, best) ==
    IF i >= Len(nodes) THEN best
    ELSE IF j >= Len(nodes)
         THEN ScanPairsIEEE(arena, nodes, distance_matrix, i + 1, i + 2, best)
    ELSE Let(LinkageDistanceIEEE(distance_matrix, arena[nodes[i + 1]], arena[nodes[j + 1]]),
             LAMBDA dist :
                 IF DoubleLess(dist, best.min_distance)
                 THEN ScanPairsIEEE(arena, nodes, distance_matrix, i, j + 1,
                                    [min_i |-> i, min_j |-> j, min_distance |-> dist])
                 ELSE ScanPairsIEEE(arena, nodes, distance_matrix, i, j + 1, best))

\* lines 122-142 on doubles
ClosestPairIEEE(arena, nodes, distance_matrix) ==
    ScanPairsIEEE(arena, nodes, distance_matrix, 0, 1,
                  [min_i |-> 0, min_j |-> 1, min_distance |-> DoubleMax])

\* lines 144-165 on doubles: one iteration of the UPGMA loop body
UPGMAStepIEEE(st, distance_matrix) ==
    Let(ClosestPairIEEE(st.arena, st.nodes, distance_matrix), LAMBDA best :
        LET li == st.nodes[best.min_i + 1]
            rj == st.nodes[best.min_j + 1]
            new_node == [id |-> 0 - 1,
                         distance |-> DoubleHalf(best.min_distance),
                         left |-> li,
                         right |-> rj,
                         sequences |-> st.arena[li].sequences \o st.arena[rj].sequences]
            erased == IF best.min_i < best.min_j
                      THEN Erase(Erase(st.nodes, best.min_j), best.min_i)
                      ELSE Erase(Erase(st.nodes, best.min_i), best.min_j)
        IN  [arena |-> Append(st.arena, new_node),
             nodes |-> Append(erased, Len(st.arena) + 1)])

(***************************************************************************)
(* pairwiseAlignment (Needleman-Wunsch).  dp[i][j] is a function over      *)
(* 0..m and 0..n.                                                          *)
(***************************************************************************)
\* variant: a mismatch costs more than a pair of gaps
calculateMatchScore_HarshMismatch(c1, c2) ==
    IF toupper(c1) = toupper(c2) THEN match_score ELSE 2 * gap_penalty + mismatch_score

calculateMatchScore(c1, c2) ==
    IF toupper(c1) = toupper(c2) THEN match_score ELSE mismatch_score

\* variant: only the first row of the border is set, the first column stays 0
initializeDPMatrix_NoFirstColumn(m, n) ==
    [i \in 0 .. m |-> [j \in 0 .. n |->
        IF i = 0 THEN j * gap_penalty ELSE 0]]

\* variant: the border charges gap_penalty for the first gap and
\* gap_extension_penalty for every further one
initializeDPMatrix_AffineBorder(m, n) ==
    [i \in 0 .. m |-> [j \in 0 .. n |->
        IF j = 0 THEN (IF i = 0 THEN 0 ELSE gap_penalty + (i - 1) * gap_extension_penalty)
        ELSE IF i = 0 THEN gap_penalty + (j - 1) * gap_extension_penalty ELSE 0]]

initializeDPMatrix(m, n) ==
    [i \in 0 .. m |-> [j \in 0 .. n |->
        IF j = 0 THEN i * gap_penalty ELSE IF i = 0 THEN j * gap_penalty ELSE 0]]

Max3(x, y, z) == Max(Max(x, y), z)

\* variant: the maximum leaves out insert_op
FillCell_NoInsert(dp, seq1, seq2, i, j) ==
    LET match_score_val == calculateMatchScore(seq1[i], seq2[j])
        match == dp[i - 1][j - 1] + match_score_val
        delete_op == dp[i - 1][j] + gap_penalty
    IN  [dp EXCEPT ![i][j] = Max(match, delete_op)]

\* variant: a vertical step is charged gap_extension_penalty
FillCell_ExtensionDelete(dp, seq1, seq2, i, j) ==
    LET match_score_val == calculateMatchScore(seq1[i], seq2[j])
        match == dp[i - 1][j - 1] + match_score_val
        delete_op == dp[i - 1][j] + gap_extension_penalty
        insert_op == dp[i][j - 1] + gap_penalty
    IN  [dp EXCEPT ![i][j] = Max3(match, delete_op, insert_op)]

\* the loop body, lines 222-227 of src/src/alignment.cpp
FillCell(dp, seq1, seq2, i, j) ==
    LET match_score_val == calculateMatchScore(seq1[i], seq2[j])
        match == dp[i - 1][j - 1] + match_score_val
        delete_op == dp[i - 1][j] + gap_penalty
        insert_op == dp[i][j - 1] + gap_penalty
    IN  [dp EXCEPT ![i][j] = Max3(match, delete_op, insert_op)]

RECURSIVE FillRow(_, _, _, _, _, _)
\* the inner loop: for (j = ...; j <= n; ++j)
FillRow(dp, seq1, seq2, n, i, j) ==
    IF j > n THEN dp
    ELSE Let(FillCell(dp, seq1, seq2, i, j),
             LAMBDA dp2 : FillRow(dp2, seq1, seq2, n, i, j + 1))

RECURSIVE FillRows(_, _, _, _, _, _)
\* the outer loop: for (i = ...; i <= m; ++i)
FillRows(dp, seq1, seq2, m, n, i) ==
    IF i > m THEN dp
    ELSE Let(FillRow(dp, seq1, seq2, n, i, 1),
             LAMBDA dp2 : FillRows(dp2, seq1, seq2, m, n, i + 1))

fillDPMatrix(dp, seq1, seq2, m, n) == FillRows(dp, seq1, seq2, m, n, 1)

isMatchStep(dp, seq1, seq2, i, j) ==
    dp[i][j] = dp[i - 1][j - 1] + calculateMatchScore(seq1[i], seq2[j])

isDeleteStep(dp, i, j) == dp[i][j] = dp[i - 1][j] + gap_penalty

\* variant: the vertical test comes before the diagonal test
determineAlignmentStep_DeleteFirst(dp, seq1, seq2, i, j) ==
    IF i > 0 /\ isDeleteStep(dp, i, j) THEN "DELETE"
    ELSE IF i > 0 /\ j > 0 /\ isMatchStep(dp, seq1, seq2, i, j) THEN "MATCH"
    ELSE "INSERT"

determineAlignmentStep(dp, seq1, seq2, i, j) ==
    IF i > 0 /\ j > 0 /\ isMatchStep(dp, seq1, seq2, i, j) THEN "MATCH"
    ELSE IF i > 0 /\ isDeleteStep(dp, i, j) THEN "DELETE"
    ELSE "INSERT"

\* variant: the DELETE case writes '-' into both rows
TraceStep_DeleteDropsChar(dp, seq1, seq2, t) ==
    Let(determineAlignmentStep(dp, seq1, seq2, t.i, t.j), LAMBDA step :
    CASE step = "MATCH" ->
           [i |-> t.i - 1, j |-> t.j - 1,
            first |-> <<seq1[t.i]>> \o t.first,
            second |-> <<seq2[t.j]>> \o t.second, ub |-> t.ub]
      [] step = "DELETE" ->
           [i |-> t.i - 1, j |-> t.j,
            first |-> <<GAP>> \o t.first,
            second |-> <<GAP>> \o t.second, ub |-> t.ub]
      [] OTHER ->
           IF t.j > 0
           THEN [i |-> t.i, j |-> t.j - 1,
                 first |-> <<GAP>> \o t.first,
                 second |-> <<seq2[t.j]>> \o t.second, ub |-> t.ub]
           ELSE [i |-> 0, j |-> 0, first |-> t.first, second |-> t.second, ub |-> TRUE])

\* One iteration of the traceback loop.  t = [i, j, first, second, ub].  An
\* INSERT step taken with j = 0 reads seq2[j-1] out of range and wraps the
\* unsigned j: undefined behaviour, recorded in ub.
TraceStep(dp, seq1, seq2, t) ==
    Let(determineAlignmentStep(dp, seq1, seq2, t.i, t.j), LAMBDA step :
    CASE step = "MATCH" ->
           [i |-> t.i - 1, j |-> t.j - 1,
            first |-> <<seq1[t.i]>> \o t.first,
            second |-> <<seq2[t.j]>> \o t.second, ub |-> t.ub]
      [] step = "DELETE" ->
           [i |-> t.i - 1, j |-> t.j,
            first |-> <<seq1[t.i]>> \o t.first,
            second |-> <<GAP>> \o t.second, ub |-> t.ub]
      [] OTHER ->
           IF t.j > 0
           THEN [i |-> t.i, j |-> t.j - 1,
                 first |-> <<GAP>> \o t.first,
                 second |-> <<seq2[t.j]>> \o t.second, ub |-> t.ub]
           ELSE [i |-> 0, j |-> 0, first |-> t.first, second |-> t.second, ub |-> TRUE])

RECURSIVE TraceLoop(_, _, _, _)
\* while (i > 0 || j > 0)
TraceLoop(dp, seq1, seq2, t) ==
    IF t.i > 0 \/ t.j > 0
    THEN Let(TraceStep(dp, seq1, seq2, t), LAMBDA t2 : TraceLoop(dp, seq1, seq2, t2))
    ELSE t

reconstructAlignment(dp, seq1, seq2, m, n) ==
    Let(TraceLoop(dp, seq1, seq2,
                  [i |-> m, j |-> n, first |-> <<>>, second |-> <<>>, ub |-> FALSE]),
        LAMBDA t : [first |-> t.first, second |-> t.second, ub |-> t.ub])

pairwiseAlignment(seq1, seq2) ==
    Let2(seq1, seq2, LAMBDA s1, s2 :
        Let2(Len(s1), Len(s2), LAMBDA m, n :
            Let(fillDPMatrix(initializeDPMatrix(m, n), s1, s2, m, n),
                LAMBDA dp : reconstructAlignment(dp, s1, s2, m, n))))

(***************************************************************************)
(* Profiles.  frequencies[pos][base] and gap_frequencies[pos] are          *)
(* fixed-point numbers: the integer x stands for the double x / One.       *)
(***************************************************************************)
RECURSIVE LCMUpTo(_)
LCMUpTo(k) == IF k <= 1 THEN 1 ELSE LET l == LCMUpTo(k - 1) IN (l * k) \div GCD(l, k)

\* the fixed-point unit, i.e. the double 1.0
One == LCMUpTo(MaxSeqs)

RECURSIVE FindChar(_, _)
\* std::string::find on DNA_ALPHABET, from 0-based position k; -1 is npos
FindChar(c, k) ==
    IF k >= Len(DNA_ALPHABET) THEN 0 - 1
    ELSE IF DNA_ALPHABET[k + 1] = c THEN k
    ELSE FindChar(c, k + 1)

getAlphabetIndex(c) == FindChar(toupper(c), 0)

getAlphabetChar(index) ==
    IF index >= 0 /\ index < Len(DNA_ALPHABET) THEN DNA_ALPHABET[index + 1] ELSE "N"

\* Profile() : length(0), num_sequences(0)
EmptyProfile ==
    [length |-> 0, num_sequences |-> 0, frequencies |-> <<>>, gap_frequencies |-> <<>>]

createProfile(sequence) ==
    [length |-> Len(sequence),
     num_sequences |-> 1,
     frequencies |-> [pos \in 1 .. Len(sequence) |-> [base \in 1 .. ALPHABET_SIZE |->
         IF sequence[pos] # GAP /\ getAlphabetIndex(sequence[pos]) = base - 1
         THEN One ELSE 0]],
     gap_frequencies |-> [pos \in 1 .. Len(sequence) |->
         IF sequence[pos] = GAP THEN One ELSE 0]]

RECURSIVE BestFrom_LastMax(_, _, _, _)
\* variant: a frequency as high as the best so far replaces it (>= for >)
BestFrom_LastMax(column, base, best_char, best_freq) ==
    IF base >= ALPHABET_SIZE THEN best_char
    ELSE IF column[base + 1] >= best_freq
         THEN BestFrom_LastMax(column, base + 1, getAlphabetChar(base), column[base + 1])
    ELSE BestFrom_LastMax(column, base + 1, best_char, best_freq)

RECURSIVE BestFrom(_, _, _, _)
\* the loop over base with the running (best_char, best_freq); base is 0-based
BestFrom(column, base, best_char, best_freq) ==
    IF base >= ALPHABET_SIZE THEN best_char
    ELSE IF column[base + 1] > best_freq
         THEN BestFrom(column, base + 1, getAlphabetChar(base), column[base + 1])
    ELSE BestFrom(column, base + 1, best_char, best_freq)

\* pos is 0-based
findBestCharacterAtPosition(profile, pos) ==
    BestFrom(profile.frequencies[pos + 1], 0, "A", 0)

RECURSIVE ConsensusFrom(_, _, _)
\* consensus += findBestCharacterAtPosition(profile, pos), pos 0-based
ConsensusFrom(profile, pos, consensus) ==
    IF pos >= profile.length THEN consensus
    ELSE Let(Append(consensus, findBestCharacterAtPosition(profile, pos)),
             LAMBDA c2 : ConsensusFrom(profile, pos + 1, c2))

generateConsensusFromProfile(profile) == ConsensusFrom(profile, 0, <<>>)

ZeroColumn == [base \in 1 .. ALPHABET_SIZE |-> 0]

\* variant: a side's column is added as it is, not scaled by its num_sequences
AddContribution_Unweighted(col, profile, p) ==
    [freq |-> [base \in 1 .. ALPHABET_SIZE |->
                  col.freq[base] + profile.frequencies[p + 1][base]],
     gap |-> col.gap + profile.gap_frequencies[p + 1]]

\* lines 357-366 and 368-377: add one side's column, scaled by its num_sequences
AddContribution(col, profile, p) ==
    [freq |-> [base \in 1 .. ALPHABET_SIZE |->
                  col.freq[base] + profile.frequencies[p + 1][base] * profile.num_sequences],
     gap |-> col.gap + profile.gap_frequencies[p + 1] * profile.num_sequences]

\* lines 379-383
NormalizeColumn(col, num_sequences) ==
    [freq |-> [base \in 1 .. ALPHABET_SIZE |-> col.freq[base] \div num_sequences],
     gap |-> col.gap \div num_sequences]

RECURSIVE CombineFrom_GapMass(_, _, _, _, _, _, _, _)
\* variant: a side whose aligned consensus holds '-' adds its num_sequences
\* to the gap frequency of the column
CombineFrom_GapMass(profile1, profile2, aligned_pair, num_sequences, pos, pos1, pos2, acc) ==
    IF pos >= Len(aligned_pair.first) THEN acc
    ELSE Let2(aligned_pair.first[pos + 1] # GAP /\ pos1 < profile1.length,
              aligned_pair.second[pos + 1] # GAP /\ pos2 < profile2.length,
              LAMBDA take1, take2 :
         Let([freq |-> ZeroColumn, gap |-> 0], LAMBDA c0 :
         Let(IF take1 THEN AddContribution(c0, profile1, pos1)
             ELSE [c0 EXCEPT !.gap = @ + One * profile1.num_sequences], LAMBDA c1 :
         Let(IF take2 THEN AddContribution(c1, profile2, pos2)
             ELSE [c1 EXCEPT !.gap = @ + One * profile2.num_sequences], LAMBDA c2 :
         Let(Append(acc, NormalizeColumn(c2, num_sequences)), LAMBDA acc2 :
         Let2(IF take1 THEN pos1 + 1 ELSE pos1, IF take2 THEN pos2 + 1 ELSE pos2,
              LAMBDA np1, np2 :
              CombineFrom_GapMass(profile1, profile2, aligned_pair, num_sequences, pos + 1,
                                  np1, np2, acc2)))))))

RECURSIVE CombineFrom(_, _, _, _, _, _, _, _)
\* lines 352-384: pos, pos1, pos2 are 0-based; acc is the list of finished columns
CombineFrom(profile1, profile2, aligned_pair, num_sequences, pos, pos1, pos2, acc) ==
    IF pos >= Len(aligned_pair.first) THEN acc
    ELSE Let2(aligned_pair.first[pos + 1] # GAP /\ pos1 < profile1.length,
              aligned_pair.second[pos + 1] # GAP /\ pos2 < profile2.length,
              LAMBDA take1, take2 :
         Let([freq |-> ZeroColumn, gap |-> 0], LAMBDA c0 :
         Let(IF take1 THEN AddContribution(c0, profile1, pos1) ELSE c0, LAMBDA c1 :
         Let(IF take2 THEN AddContribution(c1, profile2, pos2) ELSE c1, LAMBDA c2 :
         Let(Append(acc, NormalizeColumn(c2, num_sequences)), LAMBDA acc2 :
         Let2(IF take1 THEN pos1 + 1 ELSE pos1, IF take2 THEN pos2 + 1 ELSE pos2,
              LAMBDA np1, np2 :
              CombineFrom(profile1, profile2, aligned_pair, num_sequences, pos + 1,
                          np1, np2, acc2)))))))

\* variant: the merged profile keeps the num_sequences of profile1
alignProfiles_FirstCount(profile1, profile2) ==
    Let2(profile1, profile2, LAMBDA p1, p2 :
    Let2(generateConsensusFromProfile(p1), generateConsensusFromProfile(p2),
         LAMBDA consensus1, consensus2 :
    Let(pairwiseAlignment(consensus1, consensus2), LAMBDA aligned_pair :
    Let(p1.num_sequences + p2.num_sequences, LAMBDA num_sequences :
    Let(CombineFrom(p1, p2, aligned_pair, num_sequences, 0, 0, 0, <<>>), LAMBDA cols :
        [length |-> Len(aligned_pair.first),
         num_sequences |-> p1.num_sequences,
         frequencies |-> [pos \in 1 .. Len(cols) |-> cols[pos].freq],
         gap_frequencies |-> [pos \in 1 .. Len(cols) |-> cols[pos].gap]])))))

alignProfiles(profile1, profile2) ==
    Let2(profile1, profile2, LAMBDA p1, p2 :
    Let2(generateConsensusFromProfile(p1), generateConsensusFromProfile(p2),
         LAMBDA consensus1, consensus2 :
    Let(pairwiseAlignment(consensus1, consensus2), LAMBDA aligned_pair :
    Let(p1.num_sequences + p2.num_sequences, LAMBDA num_sequences :
    Let(CombineFrom(p1, p2, aligned_pair, num_sequences, 0, 0, 0, <<>>), LAMBDA cols :
        [length |-> Len(aligned_pair.first),
         num_sequences |-> num_sequences,
         frequencies |-> [pos \in 1 .. Len(cols) |-> cols[pos].freq],
         gap_frequencies |-> [pos \in 1 .. Len(cols) |-> cols[pos].gap]])))))

RECURSIVE ProfileTrace_RightFirst(_, _, _)
\* variant: an internal node yields alignProfiles(right profile, left profile)
ProfileTrace_RightFirst(sequences, tree, node) ==
    IF node = 0 THEN <<EmptyProfile>>
    ELSE LET nd == tree.arena[node] IN
         IF Len(nd.sequences) > 0 /\ nd.left = 0 /\ nd.right = 0
         THEN <<createProfile(sequences[nd.sequences[1] + 1].sequence)>>
         ELSE IF nd.left # 0 /\ nd.right # 0
         THEN Let2(ProfileTrace_RightFirst(sequences, tree, nd.left),
                   ProfileTrace_RightFirst(sequences, tree, nd.right),
                   LAMBDA lt, rt : lt \o rt \o <<alignProfiles(rt[Len(rt)], lt[Len(lt)])>>)
         ELSE <<EmptyProfile>>

RECURSIVE ProfileTrace(_, _, _)
\* The recursive walk of progressiveAlignment below `node` (a handle into
\* tree.arena, 0 for nullptr): the profiles returned by the calls of
\* progressiveAlignment, in the order the calls return (post-order).  The last
\* one is the value the call on `node` returns.
ProfileTrace(sequences, tree, node) ==
    IF node = 0 THEN <<EmptyProfile>>
    ELSE LET nd == tree.arena[node] IN
         IF Len(nd.sequences) > 0 /\ nd.left = 0 /\ nd.right = 0
         THEN <<createProfile(sequences[nd.sequences[1] + 1].sequence)>>
         ELSE IF nd.left # 0 /\ nd.right # 0
         THEN Let2(ProfileTrace(sequences, tree, nd.left),
                   ProfileTrace(sequences, tree, nd.right),
                   LAMBDA lt, rt : lt \o rt \o <<alignProfiles(lt[Len(lt)], rt[Len(rt)])>>)
         ELSE <<EmptyProfile>>

progressiveAlignment(sequences, tree, node) ==
    Let(ProfileTrace(sequences, tree, node), LAMBDA trace : trace[Len(trace)])

\* variant: the consensus is the first argument of pairwiseAlignment and the
\* sequence the second
profileToSequences_ConsensusFirst(profile, sequences, sequence_order) ==
    Let(generateConsensusFromProfile(profile), LAMBDA consensus :
        [i \in 1 .. Len(sequences) |->
            [header |-> sequences[i].header,
             sequence |-> pairwiseAlignment(consensus, sequences[i].sequence).second]])

\* variant: the consensus row of the pair is kept instead of the sequence row
profileToSequences_SecondRow(profile, sequences, sequence_order) ==
    Let(generateConsensusFromProfile(profile), LAMBDA consensus :
        [i \in 1 .. Len(sequences) |->
            [header |-> sequences[i].header,
             sequence |-> pairwiseAlignment(sequences[i].sequence, consensus).second]])

\* the consensus is recomputed for every i in the code; it is the same string each time
profileToSequences(profile, sequences, sequence_order) ==
    Let(generateConsensusFromProfile(profile), LAMBDA consensus :
        [i \in 1 .. Len(sequences) |->
            [header |-> sequences[i].header,
             sequence |-> pairwiseAlignment(sequences[i].sequence, consensus).first]])

\* std::count(begin, end, '-')
CountGaps(str) == Cardinality({k \in 1 .. Len(str) : str[k] = GAP})

\* variant: only the gaps of the sequence at position k are counted
SumGaps_FirstOnly(aligned, k) ==
    IF k > Len(aligned) THEN 0 ELSE CountGaps(aligned[k].sequence)

RECURSIVE SumGaps(_, _)
\* lines 57-59, from 1-based position k
SumGaps(aligned, k) ==
    IF k > Len(aligned) THEN 0
    ELSE CountGaps(aligned[k].sequence) + SumGaps(aligned, k + 1)

(***************************************************************************)
(* State.                                                                  *)
(*   The MSAAligner object: total_gaps, final_length, guide_tree.          *)
(*   The last call of alignSequences: its argument `sequences`, its return  *)
(*   value `aligned_sequences`, its locals distance_matrix and the profiles *)
(*   its tree walk produced, whether it wrote to std::cerr, and the number  *)
(*   of calls made so far.  `stats` is the caller's copy of the map that    *)
(*   getAlignmentStats returned last.  `history` is what the callers of a  *)
(*   series of runs have seen: per run the argument, whether the aligner   *)
(*   was freshly constructed, the value returned and the statistics read   *)
(*   right after the call.                                                 *)
(*   One run of pairwiseAlignment, step by step: p_seq1, p_seq2, p_dp,      *)
(*   p_t (the traceback's i, j and the two rows built so far), p_pc.        *)
(*   The distance estimator applied to a list of sequences: d_seqs,        *)
(*   d_matrix, d_pair.                                                     *)
(*   One run of buildGuideTree, step by step: its arguments g_seqs and     *)
(*   g_dm, g_st (the nodes allocated so far and the vector `nodes`),       *)
(*   g_root (the value returned), g_pc.                                    *)
(***************************************************************************)
VARIABLES total_gaps, final_length, guide_tree,
          sequences, aligned_sequences, distance_matrix, profiles, cerr, calls, stats,
          history,
          p_seq1, p_seq2, p_dp, p_t, p_pc,
          d_seqs, d_matrix, d_pair,
          g_seqs, g_dm, g_st, g_root, g_pc

objVars == <<total_gaps, final_length, guide_tree>>
callVars == <<sequences, aligned_sequences, distance_matrix, profiles, cerr, calls, stats,
              history>>
pairVars == <<p_seq1, p_seq2, p_dp, p_t, p_pc>>
distVars == <<d_seqs, d_matrix, d_pair>>
treeVars == <<g_seqs, g_dm, g_st, g_root, g_pc>>
vars == <<objVars, callVars, pairVars, distVars, treeVars>>

(***************************************************************************)
(* Inputs.                                                                 *)
(***************************************************************************)
Strings(chars, maxlen) == UNION {[1 .. k -> chars] : k \in 0 .. maxlen}

Tuples(strs, lo, hi) == UNION {[1 .. n -> strs] : n \in lo .. hi}

RECURSIVE TuplesWithin(_, _, _)
\* the tuples of exactly n strings over chars holding at most total characters together
TuplesWithin(chars, n, total) ==
    IF n = 0 THEN {<<>>}
    ELSE UNION {{Append(t, str) : t \in TuplesWithin(chars, n - 1, total - Len(str))} :
                str \in Strings(chars, total)}

\* a vector<Sequence> from a tuple of residue strings; the header names the record
MkSequences(strs) ==
    [i \in 1 .. Len(strs) |-> [header |-> <<"seq", i>>, sequence |-> strs[i]]]

Residues == {"A", "T", "C"}

\* the example of the README; mixed case with an ambiguity code; inputs whose
\* realignment to the consensus opens gaps; an input that holds a gap already
Scenarios ==
    { <<<<"A","T","C","G","A","T","C","G","A","T","C","G">>,
        <<"A","T","C","G","A","A","C","G","A","T","C","G">>,
        <<"A","T","C","G","A","T","C","G","A","A","C","G">>>>,
      <<<<"a","t","C","g">>, <<"T","c","N","a">>>>,
      <<<<"A","A","T","C">>, <<"T","C","T">>>>,
      <<<<"A","C">>, <<"C","T","A">>, <<"T","A","C">>>>,
      <<<<"A","T","C","G">>, <<"T","C","G","A">>, <<"A","T","C","G">>>>,
      <<<<"G","A","-","T">>, <<"G","T">>, <<"n","G","T">>>> }

AlignInputs ==
    {MkSequences(t) :
        t \in UNION {TuplesWithin(Residues, n, MaxTotal) : n \in 0 .. MaxSeqs} \cup Scenarios}

(***************************************************************************)
(* The aligner object.                                                     *)
(***************************************************************************)
\* MSAAligner::MSAAligner()
InitObject ==
    /\ total_gaps = 0
    /\ final_length = 0
    /\ guide_tree = NullTree

NoCall ==
    /\ aligned_sequences = <<>>
    /\ distance_matrix = <<>>
    /\ profiles = <<>>
    /\ cerr = FALSE
    /\ calls = 0
    /\ stats = [total_gaps |-> 0, final_length |-> 0]
    /\ history = <<>>

IdlePair ==
    /\ p_seq1 = <<>>
    /\ p_seq2 = <<>>
    /\ p_dp = <<>>
    /\ p_t = [i |-> 0, j |-> 0, first |-> <<>>, second |-> <<>>, ub |-> FALSE]
    /\ p_pc = "idle"

IdleDist ==
    /\ d_seqs = <<>>
    /\ d_matrix = [built |-> FALSE, matrix |-> <<>>]
    /\ d_pair = [set |-> FALSE, i |-> 0, j |-> 0, distance |-> RatZero]

IdleTree ==
    /\ g_seqs = <<>>
    /\ g_dm = <<>>
    /\ g_st = [arena |-> <<>>, nodes |-> <<>>]
    /\ g_root = 0
    /\ g_pc = "idle"

\* variant: the counter of gaps is not reset at the start of a run
alignSequences_NoReset(seqs) ==
    /\ sequences' = seqs
    /\ calls' = calls + 1
    /\ IF Len(seqs) < 2
       THEN /\ cerr' = TRUE
            /\ aligned_sequences' = seqs
            /\ distance_matrix' = <<>>
            /\ profiles' = <<>>
            /\ UNCHANGED objVars
       ELSE \E dm \in {calculateDistanceMatrix(seqs)} :
            \E tree \in {buildGuideTree(seqs, dm)} :
            \E trace \in {ProfileTrace(seqs, tree, tree.root)} :
            \E final_profile \in {trace[Len(trace)]} :
            \E sequence_order \in {[i \in 1 .. Len(seqs) |-> i - 1]} :
            \E aligned \in {profileToSequences(final_profile, seqs, sequence_order)} :
                /\ cerr' = FALSE
                /\ distance_matrix' = dm
                /\ guide_tree' = tree
                /\ profiles' = trace
                /\ aligned_sequences' = aligned
                /\ final_length' = IF aligned # <<>> THEN Len(aligned[1].sequence) ELSE 0
                /\ total_gaps' = IF aligned # <<>> THEN total_gaps + SumGaps(aligned, 1)
                                                   ELSE total_gaps
    /\ UNCHANGED <<stats, pairVars, distVars, treeVars>>

\* variant: the statistics are reset before the size of the input is tested
alignSequences_ResetFirst(seqs) ==
    /\ sequences' = seqs
    /\ calls' = calls + 1
    /\ IF Len(seqs) < 2
       THEN /\ cerr' = TRUE
            /\ aligned_sequences' = seqs
            /\ distance_matrix' = <<>>
            /\ profiles' = <<>>
            /\ total_gaps' = 0
            /\ final_length' = 0
            /\ guide_tree' = guide_tree
       ELSE \E dm \in {calculateDistanceMatrix(seqs)} :
            \E tree \in {buildGuideTree(seqs, dm)} :
            \E trace \in {ProfileTrace(seqs, tree, tree.root)} :
            \E final_profile \in {trace[Len(trace)]} :
            \E sequence_order \in {[i \in 1 .. Len(seqs) |-> i - 1]} :
            \E aligned \in {profileToSequences(final_profile, seqs, sequence_order)} :
                /\ cerr' = FALSE
                /\ distance_matrix' = dm
                /\ guide_tree' = tree
                /\ profiles' = trace
                /\ aligned_sequences' = aligned
                /\ final_length' = IF aligned # <<>> THEN Len(aligned[1].sequence) ELSE 0
                /\ total_gaps' = IF aligned # <<>> THEN 0 + SumGaps(aligned, 1) ELSE 0
    /\ UNCHANGED <<stats, pairVars, distVars, treeVars>>

\* alignSequences(seqs): the whole call
alignSequences(seqs) ==
    /\ sequences' = seqs
    /\ calls' = calls + 1
    /\ IF Len(seqs) < 2
       THEN /\ cerr' = TRUE
            /\ aligned_sequences' = seqs
            /\ distance_matrix' = <<>>
            /\ profiles' = <<>>
            /\ UNCHANGED objVars
       ELSE \E dm \in {calculateDistanceMatrix(seqs)} :
            \E tree \in {buildGuideTree(seqs, dm)} :
            \E trace \in {ProfileTrace(seqs, tree, tree.root)} :
            \E final_profile \in {trace[Len(trace)]} :
            \E sequence_order \in {[i \in 1 .. Len(seqs) |-> i - 1]} :
            \E aligned \in {profileToSequences(final_profile, seqs, sequence_order)} :
                /\ cerr' = FALSE
                /\ distance_matrix' = dm
                /\ guide_tree' = tree
                /\ profiles' = trace
                /\ aligned_sequences' = aligned
                /\ final_length' = IF aligned # <<>> THEN Len(aligned[1].sequence) ELSE 0
                /\ total_gaps' = IF aligned # <<>> THEN 0 + SumGaps(aligned, 1) ELSE 0
    /\ UNCHANGED <<stats, pairVars, distVars, treeVars>>

\* getAlignmentStats() const
getAlignmentStats == [total_gaps |-> total_gaps, final_length |-> final_length]

\* a caller reads the statistics (MSAligner.cpp:153, benchmark.cpp:65-67)
GetAlignmentStats ==
    /\ stats' = getAlignmentStats
    /\ UNCHANGED <<objVars, sequences, aligned_sequences, distance_matrix, profiles,
                   cerr, calls, history, pairVars, distVars, treeVars>>

(***************************************************************************)
(* SpecAlign: one call of alignSequences on a fresh aligner, its argument  *)
(* drawn from the bounded inputs.                                          *)
(***************************************************************************)
InitAlign ==
    /\ InitObject /\ NoCall /\ IdlePair /\ IdleDist /\ IdleTree
    /\ sequences \in AlignInputs

AlignOnce == calls = 0 /\ alignSequences(sequences) /\ UNCHANGED history

NextAlign == AlignOnce

SpecAlign == InitAlign /\ [][NextAlign]_vars

(***************************************************************************)
(* Spec: the life of one aligner object, called repeatedly.                *)
(***************************************************************************)
CallStrings == {<<>>, <<"A", "T">>, <<"T", "A", "A">>}

CallInputs == {MkSequences(t) : t \in Tuples(CallStrings, 0, MaxCallSeqs)}

Init ==
    /\ InitObject /\ NoCall /\ IdlePair /\ IdleDist /\ IdleTree
    /\ sequences = <<>>

AlignSequences ==
    /\ calls < MaxCalls
    /\ \E seqs \in CallInputs : alignSequences(seqs)
    /\ UNCHANGED history

Next == AlignSequences \/ GetAlignmentStats

Spec == Init /\ [][Next]_vars

(***************************************************************************)
(* SpecRuns: a series of runs.  Each run calls alignSequences and reads    *)
(* the statistics; between runs the caller may construct a new aligner.    *)
(***************************************************************************)
\* MSAAligner aligner; alignSequences(seqs); getAlignmentStats()
RunAlign ==
    /\ Len(history) < MaxRuns
    /\ \E seqs \in CallInputs :
           /\ alignSequences(seqs)
           /\ history' = Append(history,
                  [input |-> seqs,
                   fresh |-> InitObject,
                   output |-> aligned_sequences',
                   total_gaps |-> total_gaps',
                   final_length |-> final_length'])

\* a new MSAAligner replaces the one used so far
Construct ==
    /\ ~InitObject
    /\ total_gaps' = 0
    /\ final_length' = 0
    /\ guide_tree' = NullTree
    /\ UNCHANGED <<callVars, pairVars, distVars, treeVars>>

NextRuns == RunAlign \/ Construct

SpecRuns == Init /\ [][NextRuns]_vars

(***************************************************************************)
(* SpecPair: one run of pairwiseAlignment(p_seq1, p_seq2), step by step:   *)
(* initializeDPMatrix, fillDPMatrix, then reconstructAlignment one loop     *)
(* iteration at a time.                                                    *)
(***************************************************************************)
PairChars == {"A", "a", "T"}

\* the pairs the specification discusses, a pair of length 6, a pair whose
\* alignment opens gaps in both rows, and strings that hold '-' already
PairScenarios ==
    { <<<<"A","A","A","A">>, <<"T","T","T","T">>>>,
      <<<<"A","T","C","G">>, <<"A","T","T","G">>>>,
      <<<<"A","A","T","C">>, <<"T","C","T">>>>,
      <<<<"A","T","C","G","A","T">>, <<"T","C","G","g","A","T">>>>,
      <<<<"-">>, <<"A">>>>,
      <<<<"A","-","T">>, <<"A","T">>>> }

PairInputs ==
    (Strings(PairChars, MaxPairLen) \X Strings(PairChars, MaxPairLen)) \cup PairScenarios

InitPair ==
    /\ InitObject /\ NoCall /\ IdleDist /\ IdleTree
    /\ sequences = <<>>
    /\ \E pr \in PairInputs : p_seq1 = pr[1] /\ p_seq2 = pr[2]
    /\ p_dp = <<>>
    /\ p_t = [i |-> 0, j |-> 0, first |-> <<>>, second |-> <<>>, ub |-> FALSE]
    /\ p_pc = "start"

\* size_t m = seq1.length(), n = seq2.length(); initializeDPMatrix(dp, m, n)
InitializeDPMatrix ==
    /\ p_pc = "start"
    /\ p_dp' = initializeDPMatrix(Len(p_seq1), Len(p_seq2))
    /\ p_pc' = "fill"
    /\ UNCHANGED <<p_seq1, p_seq2, p_t, objVars, callVars, distVars, treeVars>>

\* fillDPMatrix(dp, seq1, seq2, m, n); then size_t i = m, j = n
FillDPMatrix ==
    /\ p_pc = "fill"
    /\ p_dp' = fillDPMatrix(p_dp, p_seq1, p_seq2, Len(p_seq1), Len(p_seq2))
    /\ p_t' = [i |-> Len(p_seq1), j |-> Len(p_seq2),
               first |-> <<>>, second |-> <<>>, ub |-> FALSE]
    /\ p_pc' = "trace"
    /\ UNCHANGED <<p_seq1, p_seq2, objVars, callVars, distVars, treeVars>>

\* one iteration of while (i > 0 || j > 0)
TraceOne ==
    /\ p_pc = "trace"
    /\ p_t.i > 0 \/ p_t.j > 0
    /\ \E t2 \in {TraceStep(p_dp, p_seq1, p_seq2, p_t)} :
           /\ p_t' = t2
           /\ p_pc' = IF t2.ub THEN "ub" ELSE "trace"
    /\ UNCHANGED <<p_seq1, p_seq2, p_dp, objVars, callVars, distVars, treeVars>>

\* the loop has ended: return {aligned_seq1, aligned_seq2}
ReturnPair ==
    /\ p_pc = "trace"
    /\ ~(p_t.i > 0 \/ p_t.j > 0)
    /\ p_pc' = "done"
    /\ UNCHANGED <<p_seq1, p_seq2, p_dp, p_t, objVars, callVars, distVars, treeVars>>

NextPair == InitializeDPMatrix \/ FillDPMatrix \/ TraceOne \/ ReturnPair

SpecPair == InitPair /\ [][NextPair]_vars

(***************************************************************************)
(* SpecDist: the distance estimator applied to a list of sequences:        *)
(* calculateDistanceMatrix on the list, calculateSequenceDistance on any    *)
(* two of its members, in either order.                                    *)
(***************************************************************************)
DistChars == {"A", "a", "T"}

DistInputs ==
    {MkSequences(t) : t \in Tuples(Strings(DistChars, MaxDistLen), 0, MaxDistSeqs)}

InitDist ==
    /\ InitObject /\ NoCall /\ IdlePair /\ IdleTree
    /\ sequences = <<>>
    /\ d_seqs \in DistInputs
    /\ d_matrix = [built |-> FALSE, matrix |-> <<>>]
    /\ d_pair = [set |-> FALSE, i |-> 0, j |-> 0, distance |-> RatZero]

CalculateDistanceMatrix ==
    /\ d_matrix' = [built |-> TRUE, matrix |-> calculateDistanceMatrix(d_seqs)]
    /\ UNCHANGED <<d_seqs, d_pair, objVars, callVars, pairVars, treeVars>>

\* i, j are 1-based positions in d_seqs
CalculateSequenceDistance ==
    /\ \E i \in 1 .. Len(d_seqs) : \E j \in 1 .. Len(d_seqs) :
           d_pair' = [set |-> TRUE, i |-> i, j |-> j,
                      distance |-> calculateSequenceDistance(d_seqs[i].sequence,
                                                             d_seqs[j].sequence)]
    /\ UNCHANGED <<d_seqs, d_matrix, objVars, callVars, pairVars, treeVars>>

NextDist == CalculateDistanceMatrix \/ CalculateSequenceDistance

SpecDist == InitDist /\ [][NextDist]_vars

(***************************************************************************)
(* SpecTree: one run of buildGuideTree(g_seqs, g_dm), one iteration of the  *)
(* UPGMA loop at a time; g_dm is the matrix calculateDistanceMatrix gives   *)
(* for g_seqs, as in alignSequences.                                       *)
(***************************************************************************)
TreeStrings ==
    {<<>>, <<"A">>, <<"T">>, <<"A", "T">>, <<"T", "A">>, <<"A", "A">>}

TreeInputs == {MkSequences(t) : t \in Tuples(TreeStrings, 0, MaxTreeSeqs)}

InitTree ==
    /\ InitObject /\ NoCall /\ IdlePair /\ IdleDist
    /\ sequences = <<>>
    /\ g_seqs \in TreeInputs
    /\ g_dm = calculateDistanceMatrix(g_seqs)
    /\ g_st = [arena |-> <<>>, nodes |-> <<>>]
    /\ g_root = 0
    /\ g_pc = "start"

\* lines 110-118
CreateLeaves ==
    /\ g_pc = "start"
    /\ g_st' = LeafNodes(Len(g_seqs))
    /\ g_pc' = "loop"
    /\ UNCHANGED <<g_seqs, g_dm, g_root, objVars, callVars, pairVars, distVars>>

\* one iteration of while (nodes.size() > 1)
MergeClosest ==
    /\ g_pc = "loop"
    /\ Len(g_st.nodes) > 1
    /\ \E st2 \in {UPGMAStep(g_st, g_dm)} : g_st' = st2
    /\ UNCHANGED <<g_seqs, g_dm, g_root, g_pc, objVars, callVars, pairVars, distVars>>

\* return nodes.empty() ? nullptr : nodes.front()
ReturnRoot ==
    /\ g_pc = "loop"
    /\ ~(Len(g_st.nodes) > 1)
    /\ g_root' = IF Len(g_st.nodes) = 0 THEN 0 ELSE g_st.nodes[1]
    /\ g_pc' = "done"
    /\ UNCHANGED <<g_seqs, g_dm, g_st, objVars, callVars, pairVars, distVars>>

NextTree == CreateLeaves \/ MergeClosest \/ ReturnRoot

\* buildGuideTree is straight-line sequential code: once called, it keeps
\* executing its next statement until it returns
SpecTreeFair == InitTree /\ [][NextTree]_vars /\ WF_vars(NextTree)

SpecTree == InitTree /\ [][NextTree]_vars

(***************************************************************************)
(* SpecTreeIEEE: buildGuideTree as in SpecTree, with the distances held as *)
(* the doubles the compiled code computes.                                 *)
(***************************************************************************)
\* inputs with lengths 5 and 7, whose distances are not binary fractions;
\* the example of the README
IEEEScenarios ==
    { <<<<"T","T","T","T","T","A","A">>, <<"A","A","A","T","A","T","A">>,
        <<"T","T","T","A","A">>, <<"A","T","A","A","A">>>>,
      <<<<"A","T","T","T","A">>, <<"A","T","A">>, <<"T","T","A","A","T","A","A">>>>,
      <<<<"A","T","C","G","A","T","C","G","A","T","C","G">>,
        <<"A","T","C","G","A","A","C","G","A","T","C","G">>,
        <<"A","T","C","G","A","T","C","G","A","A","C","G">>>> }

TreeInputsIEEE ==
    {MkSequences(t) : t \in Tuples(TreeStrings, 0, MaxIEEESeqs) \cup IEEEScenarios}

InitTreeIEEE ==
    /\ InitObject /\ NoCall /\ IdlePair /\ IdleDist
    /\ sequences = <<>>
    /\ g_seqs \in TreeInputsIEEE
    /\ g_dm = calculateDistanceMatrixIEEE(g_seqs)
    /\ g_st = [arena |-> <<>>, nodes |-> <<>>]
    /\ g_root = 0
    /\ g_pc = "start"

\* lines 110-118
CreateLeavesIEEE ==
    /\ g_pc = "start"
    /\ g_st' = LeafNodesIEEE(Len(g_seqs))
    /\ g_pc' = "loop"
    /\ UNCHANGED <<g_seqs, g_dm, g_root, objVars, callVars, pairVars, distVars>>

\* one iteration of while (nodes.size() > 1)
MergeClosestIEEE ==
    /\ g_pc = "loop"
    /\ Len(g_st.nodes) > 1
    /\ \E st2 \in {UPGMAStepIEEE(g_st, g_dm)} : g_st' = st2
    /\ UNCHANGED <<g_seqs, g_dm, g_root, g_pc, objVars, callVars, pairVars, distVars>>

NextTreeIEEE == CreateLeavesIEEE \/ MergeClosestIEEE \/ ReturnRoot

SpecTreeIEEE == InitTreeIEEE /\ [][NextTreeIEEE]_vars

(***************************************************************************)
(* Properties of one call of alignSequences (SpecAlign).                   *)
(***************************************************************************)
\* the call has returned from the alignment path (two or more sequences)
Aligned == calls > 0 /\ Len(sequences) >= 2

RECURSIVE StripGaps(_)
StripGaps(str) ==
    IF str = <<>> THEN <<>>
    ELSE IF Head(str) = GAP THEN StripGaps(Tail(str))
    ELSE <<Head(str)>> \o StripGaps(Tail(str))

GapFree(seqs) == \A i \in 1 .. Len(seqs) : \A k \in 1 .. Len(seqs[i].sequence) :
    seqs[i].sequence[k] # GAP

ColumnMass(profile, pos) ==
    profile.frequencies[pos][1] + profile.frequencies[pos][2]
    + profile.frequencies[pos][3] + profile.frequencies[pos][4]
    + profile.gap_frequencies[pos]

\* the input is one the FASTA reader can deliver: no sequence is empty
NonEmptyInput(seqs) == \A i \in 1 .. Len(seqs) : Len(seqs[i].sequence) > 0

\* C1: for every input of N >= 2 sequences, all N sequences returned by
\* alignSequences have the same length, and that common length is the
\* final_length reported by getAlignmentStats.  (Stated for non-empty inputs,
\* the ones the reader delivers.)
C1_EqualLengths ==
    (Aligned /\ NonEmptyInput(sequences)) =>
        /\ Len(aligned_sequences) = Len(sequences)
        /\ \A i \in 1 .. Len(aligned_sequences) :
               Len(aligned_sequences[i].sequence) = getAlignmentStats.final_length

\* C2: every profile produced during alignSequences (each leaf profile of
\* createProfile and each result of alignProfiles) has, in every column,
\* symbol frequencies and gap frequency that sum to 1.  (Stated for non-empty
\* inputs, the ones the reader delivers.)
C2_ProfileMass ==
    (Aligned /\ NonEmptyInput(sequences)) =>
        \A k \in 1 .. Len(profiles) : \A pos \in 1 .. profiles[k].length :
            ColumnMass(profiles[k], pos) = One

\* C3: for gap-free input of N >= 2 sequences, removing every '-' from the i-th
\* returned sequence gives exactly the i-th input residue string.
C3_Composition ==
    (Aligned /\ GapFree(sequences)) =>
        /\ Len(aligned_sequences) = Len(sequences)
        /\ \A i \in 1 .. Len(sequences) :
               StripGaps(aligned_sequences[i].sequence) = sequences[i].sequence

\* C3 witness: a gap-free input, with a lower-case residue, whose alignment holds gaps
C3_Witness ==
    /\ Aligned /\ GapFree(sequences)
    /\ total_gaps > 0
    /\ \E i \in 1 .. Len(sequences) : \E k \in 1 .. Len(sequences[i].sequence) :
           sequences[i].sequence[k] = "t"

(***************************************************************************)
(* Properties of pairwiseAlignment (SpecPair).                             *)
(***************************************************************************)
NoGapChar(str) == \A k \in 1 .. Len(str) : str[k] # GAP

\* the score of one column of an aligned pair
ColumnScore(x, y) ==
    IF x = GAP \/ y = GAP THEN 0 - 2
    ELSE IF toupper(x) = toupper(y) THEN 2 ELSE 0 - 1

RECURSIVE PairScore(_, _, _)
\* the score of the columns k.. of two rows of equal length
PairScore(row1, row2, k) ==
    IF k > Len(row1) THEN 0
    ELSE ColumnScore(row1[k], row2[k]) + PairScore(row1, row2, k + 1)

RECURSIVE AllAlignments(_, _)
\* every global alignment of a and b: each column pairs the next character of a
\* with the next of b, or one of them with a gap
AllAlignments(a, b) ==
    IF a = <<>> /\ b = <<>> THEN {[first |-> <<>>, second |-> <<>>]}
    ELSE (IF a # <<>> /\ b # <<>>
          THEN {[first |-> <<Head(a)>> \o r.first, second |-> <<Head(b)>> \o r.second] :
                    r \in AllAlignments(Tail(a), Tail(b))}
          ELSE {})
         \cup (IF a # <<>>
               THEN {[first |-> <<Head(a)>> \o r.first, second |-> <<GAP>> \o r.second] :
                         r \in AllAlignments(Tail(a), b)}
               ELSE {})
         \cup (IF b # <<>>
               THEN {[first |-> <<GAP>> \o r.first, second |-> <<Head(b)>> \o r.second] :
                         r \in AllAlignments(a, Tail(b))}
               ELSE {})

MaxOf(S) == CHOOSE x \in S : \A y \in S : y <= x

BruteForceBest(a, b) ==
    Let({PairScore(r.first, r.second, 1) : r \in AllAlignments(a, b)},
        LAMBDA scores : MaxOf(scores))

\* the returned pair scores dp[m][n], and dp[m][n] is the brute-force optimum
PairOptimal ==
    /\ Len(p_t.first) = Len(p_t.second)
    /\ PairScore(p_t.first, p_t.second, 1) = p_dp[Len(p_seq1)][Len(p_seq2)]
    /\ p_dp[Len(p_seq1)][Len(p_seq2)] = BruteForceBest(p_seq1, p_seq2)

\* "AAAA" against "TTTT": the gap-free diagonal alignment, score -4
DiagonalExample ==
    (p_seq1 = <<"A", "A", "A", "A">> /\ p_seq2 = <<"T", "T", "T", "T">>) =>
        /\ p_t.first = p_seq1
        /\ p_t.second = p_seq2
        /\ p_dp[4][4] = 0 - 4

\* C4 (as stated, for all strings): the score of the pair pairwiseAlignment
\* returns, counted +2 per match column, -1 per mismatch column and -2 per gap
\* column, equals dp[m][n] and the maximum over all global alignments.
C4_OptimalAllStrings == (p_pc = "done") => (PairOptimal /\ DiagonalExample)

\* C4 (amended): for all strings a, b that hold no '-', the score of the pair
\* pairwiseAlignment returns, counted +2 per case-insensitive match column, -1
\* per mismatch column and -2 per gap column, equals dp[m][n] and equals the
\* maximum score over all global alignments of a and b; "AAAA" against "TTTT"
\* gives the gap-free diagonal alignment with score -4.
C4_Optimal ==
    (p_pc = "done" /\ NoGapChar(p_seq1) /\ NoGapChar(p_seq2)) =>
        (PairOptimal /\ DiagonalExample)

\* C4 witness: the run on "AAAA" and "TTTT" has returned the diagonal alignment
C4_Witness ==
    /\ p_pc = "done"
    /\ p_seq1 = <<"A", "A", "A", "A">> /\ p_seq2 = <<"T", "T", "T", "T">>
    /\ p_t.first = p_seq1 /\ p_t.second = p_seq2
    /\ PairScore(p_t.first, p_t.second, 1) = 0 - 4

\* C5: for all strings a, b without '-', pairwiseAlignment returns two rows of
\* equal length L with max(|a|,|b|) <= L <= |a|+|b|, no column holds '-' in
\* both rows, and deleting '-' from the first row gives a, from the second b.
C5_Shape ==
    (p_pc = "done" /\ NoGapChar(p_seq1) /\ NoGapChar(p_seq2)) =>
        /\ Len(p_t.first) = Len(p_t.second)
        /\ Max(Len(p_seq1), Len(p_seq2)) <= Len(p_t.first)
        /\ Len(p_t.first) <= Len(p_seq1) + Len(p_seq2)
        /\ \A k \in 1 .. Len(p_t.first) : ~(p_t.first[k] = GAP /\ p_t.second[k] = GAP)
        /\ StripGaps(p_t.first) = p_seq1
        /\ StripGaps(p_t.second) = p_seq2

\* C5 witness: a returned pair, of gap-free strings, with gaps in both rows
C5_Witness ==
    /\ p_pc = "done" /\ NoGapChar(p_seq1) /\ NoGapChar(p_seq2)
    /\ CountGaps(p_t.first) > 0 /\ CountGaps(p_t.second) > 0
    /\ Len(p_t.first) > Max(Len(p_seq1), Len(p_seq2))

\* the diagonal step reproduces S[i][j]
DiagonalReproduces(i, j) ==
    /\ i > 0 /\ j > 0
    /\ p_dp[i][j] = p_dp[i - 1][j - 1]
                     + (IF toupper(p_seq1[i]) = toupper(p_seq2[j]) THEN 2 ELSE 0 - 1)

\* the vertical step reproduces S[i][j]
VerticalReproduces(i, j) == i > 0 /\ p_dp[i][j] = p_dp[i - 1][j] + (0 - 2)

\* the traceback starts at cell (m, n) with empty rows
TraceStartsAtCorner ==
    (p_pc = "fill" /\ p_pc' = "trace") =>
        /\ p_t'.i = Len(p_seq1) /\ p_t'.j = Len(p_seq2)
        /\ p_t'.first = <<>> /\ p_t'.second = <<>>

\* a step of the traceback takes the first of diagonal, vertical, horizontal that applies
TraceFollowsPriority ==
    (p_pc = "trace" /\ p_t' # p_t) =>
        IF DiagonalReproduces(p_t.i, p_t.j)
        THEN /\ p_t'.i = p_t.i - 1 /\ p_t'.j = p_t.j - 1
             /\ p_t'.first = <<p_seq1[p_t.i]>> \o p_t.first
             /\ p_t'.second = <<p_seq2[p_t.j]>> \o p_t.second
        ELSE IF VerticalReproduces(p_t.i, p_t.j)
        THEN /\ p_t'.i = p_t.i - 1 /\ p_t'.j = p_t.j
             /\ p_t'.first = <<p_seq1[p_t.i]>> \o p_t.first
             /\ p_t'.second = <<GAP>> \o p_t.second
        ELSE /\ p_t.j > 0
             /\ p_t'.i = p_t.i /\ p_t'.j = p_t.j - 1
             /\ p_t'.first = <<GAP>> \o p_t.first
             /\ p_t'.second = <<p_seq2[p_t.j]>> \o p_t.second

\* the pair returned is the pair the traceback built
ReturnsTracedPair == (p_pc = "trace" /\ p_pc' = "done") => p_t' = p_t

\* C7: the traceback starts at cell (m,n); at each cell it takes the diagonal
\* step whenever i>0, j>0 and S[i][j] = S[i-1][j-1] + matchScore; otherwise the
\* vertical step whenever i>0 and S[i][j] = S[i-1][j] + gap; otherwise the
\* horizontal step; the returned pair is the one this priority selects.
C7_TracebackPriority ==
    [][TraceStartsAtCorner /\ TraceFollowsPriority /\ ReturnsTracedPair]_vars

\* C7 witness: the last step taken was diagonal, from a cell where the vertical
\* step reproduced the score as well
C7_Witness ==
    /\ p_pc = "trace"
    /\ p_t.i < Len(p_seq1) /\ p_t.j < Len(p_seq2)
    /\ p_t.first # <<>>
    /\ Head(p_t.first) # GAP /\ Head(p_t.second) # GAP
    /\ NoGapChar(p_seq1) /\ NoGapChar(p_seq2)
    /\ DiagonalReproduces(p_t.i + 1, p_t.j + 1)
    /\ VerticalReproduces(p_t.i + 1, p_t.j + 1)

(***************************************************************************)
(* Property of the aligner called with fewer than two sequences (Spec).    *)
(***************************************************************************)
\* C6: alignSequences called with fewer than 2 sequences fails and hands no
\* alignment result back to the caller: nothing is passed through.
C6_NoResultBelowTwo ==
    (calls > 0 /\ Len(sequences) < 2 /\ NonEmptyInput(sequences)) =>
        aligned_sequences = <<>>

(***************************************************************************)
(* Properties of buildGuideTree (SpecTree).                                *)
(***************************************************************************)
RECURSIVE Subtree(_, _)
\* the handles met walking the tree below node, each as often as it is met
Subtree(arena, node) ==
    IF node = 0 THEN <<>>
    ELSE <<node>> \o Subtree(arena, arena[node].left) \o Subtree(arena, arena[node].right)

IsLeaf(nd) == nd.left = 0 /\ nd.right = 0

\* C8: for N >= 1 input sequences the tree returned by buildGuideTree has
\* exactly N leaves, each childless and holding exactly one distinct sequence
\* index, and exactly N-1 internal nodes, each with two children; the root's
\* member list contains every index 0..N-1 exactly once.
C8_TreeShape ==
    (g_pc = "done" /\ Len(g_seqs) >= 1) =>
        /\ g_root # 0
        /\ LET n == Len(g_seqs)
               arena == g_st.arena
               walk == Subtree(arena, g_root)
               leaves == {k \in 1 .. Len(walk) : IsLeaf(arena[walk[k]])}
               internals == (1 .. Len(walk)) \ leaves
               members == arena[g_root].sequences
           IN  /\ Cardinality(leaves) = n
               /\ Cardinality(internals) = n - 1
               /\ \A k \in leaves : Len(arena[walk[k]].sequences) = 1
               /\ \A k, l \in leaves :
                      k # l => arena[walk[k]].sequences[1] # arena[walk[l]].sequences[1]
               /\ \A k \in internals :
                      arena[walk[k]].left # 0 /\ arena[walk[k]].right # 0
               /\ Len(members) = n
               /\ {members[k] : k \in 1 .. n} = 0 .. n - 1

\* C8 witness: a tree over three or more sequences has been returned
C8_Witness ==
    /\ g_pc = "done"
    /\ Len(g_seqs) >= 3
    /\ g_root # 0
    /\ ~IsLeaf(g_st.arena[g_root])
    /\ Len(g_st.arena) = 2 * Len(g_seqs) - 1

(***************************************************************************)
(* Properties of the distance estimator (SpecDist).                        *)
(***************************************************************************)
\* C9: calculateSequenceDistance(A, B) = calculateSequenceDistance(B, A) for
\* all strings, calculateSequenceDistance(A, A) = 0 for non-empty A; the
\* matrix of calculateDistanceMatrix is symmetric, has a zero diagonal and all
\* entries in [0,1].
C9_Symmetry ==
    /\ d_pair.set =>
           LET A == d_seqs[d_pair.i].sequence
               B == d_seqs[d_pair.j].sequence
           IN  /\ d_pair.distance = calculateSequenceDistance(B, A)
               /\ (A = B /\ Len(A) > 0) => d_pair.distance = RatZero
    /\ d_matrix.built =>
           LET n == Len(d_seqs) IN
           /\ DOMAIN d_matrix.matrix = 0 .. n - 1
           /\ \A i \in 0 .. n - 1 :
                  /\ DOMAIN d_matrix.matrix[i] = 0 .. n - 1
                  /\ d_matrix.matrix[i][i] = RatZero
                  /\ \A j \in 0 .. n - 1 :
                         /\ d_matrix.matrix[i][j] = d_matrix.matrix[j][i]
                         /\ RatLeq(RatZero, d_matrix.matrix[i][j])
                         /\ RatLeq(d_matrix.matrix[i][j], RatOne)

\* C9 witness: a distance strictly between 0 and 1 of two strings of different
\* lengths has been computed, and the matrix has been built
C9_Witness ==
    /\ d_pair.set /\ d_matrix.built
    /\ d_pair.i # d_pair.j
    /\ Len(d_seqs[d_pair.i].sequence) < Len(d_seqs[d_pair.j].sequence)
    /\ RatLess(RatZero, d_pair.distance) /\ RatLess(d_pair.distance, RatOne)

\* the two characters are the same ignoring case
SameIgnoringCase(x, y) ==
    x = y \/ {x, y} \in {{"A", "a"}, {"T", "t"}, {"C", "c"}, {"G", "g"}, {"N", "n"}}

\* C10: calculateSequenceDistance returns 1.0 when either input is empty;
\* otherwise 1 - matches/max_len, matches being the number of positions of
\* the overlap 0..min_len-1 where the strings agree ignoring case and max_len
\* the length of the longer string.
C10_DistanceFormula ==
    d_pair.set =>
        LET A == d_seqs[d_pair.i].sequence
            B == d_seqs[d_pair.j].sequence
            min_len == Min(Len(A), Len(B))
            max_len == Max(Len(A), Len(B))
            matches == Cardinality({k \in 1 .. min_len : SameIgnoringCase(A[k], B[k])})
        IN  IF Len(A) = 0 \/ Len(B) = 0
            THEN d_pair.distance = RatOne
            ELSE /\ d_pair.distance.den > 0
                 /\ d_pair.distance.num * max_len = (max_len - matches) * d_pair.distance.den

\* C10 witness: a distance computed for non-empty strings of different lengths
\* that agree at some position only when case is ignored
C10_Witness ==
    /\ d_pair.set
    /\ Len(d_seqs[d_pair.i].sequence) > 0
    /\ Len(d_seqs[d_pair.i].sequence) < Len(d_seqs[d_pair.j].sequence)
    /\ \E k \in 1 .. Len(d_seqs[d_pair.i].sequence) :
           /\ d_seqs[d_pair.i].sequence[k] # d_seqs[d_pair.j].sequence[k]
           /\ SameIgnoringCase(d_seqs[d_pair.i].sequence[k], d_seqs[d_pair.j].sequence[k])

(***************************************************************************)
(* Properties of a series of runs (SpecRuns).                              *)
(***************************************************************************)
SameOutput(h1, h2) == h1.output = h2.output

SameStats(h1, h2) ==
    h1.final_length = h2.final_length /\ h1.total_gaps = h2.total_gaps

RECURSIVE GapCharsIn(_)
\* the number of '-' in all the sequences of a result
GapCharsIn(result) ==
    IF result = <<>> THEN 0
    ELSE (Len(Head(result).sequence) - Len(StripGaps(Head(result).sequence)))
         + GapCharsIn(Tail(result))

\* C12: after any series of calls on one aligner, right after a call with two
\* or more sequences getAlignmentStats returns final_length = the length of
\* the first sequence that call returned and total_gaps = the number of '-'
\* in all the sequences that call returned: nothing of earlier runs is left.
C12_StatsOfLastRun ==
    (calls > 0 /\ Len(sequences) >= 2)
        => /\ getAlignmentStats.final_length = Len(aligned_sequences[1].sequence)
           /\ getAlignmentStats.total_gaps = GapCharsIn(aligned_sequences)

\* a second run with gaps, after the caller read the different, non-zero
\* statistics of the first run
C12_Witness ==
    /\ calls = 2
    /\ Len(sequences) >= 2
    /\ total_gaps > 0
    /\ stats.total_gaps > 0
    /\ stats # getAlignmentStats
    /\ \E i \in 2 .. Len(aligned_sequences) : CountGaps(aligned_sequences[i].sequence) > 0

(***************************************************************************)
(* Properties of particular inputs of alignSequences (SpecAlign).          *)
(***************************************************************************)
\* a row of k gap characters
GapRow(k) == [x \in 1 .. k |-> GAP]

\* the input is a pair of sequences of which one, at position e, is empty
PairWithEmpty(e) ==
    /\ Len(sequences) = 2
    /\ e \in 1 .. 2
    /\ sequences[e].sequence = <<>>

\* C13: for an input of exactly 2 sequences of which one is empty,
\* alignSequences does not take the fewer-than-2 error path, the distance
\* between the two is 1.0, and pairwiseAlignment of the empty string against
\* the other string s returns |s| gap characters opposite s unchanged, in
\* either argument order.
C13_EmptySequence ==
    \A e \in 1 .. 2 :
        (calls > 0 /\ PairWithEmpty(e)) =>
            LET s == sequences[3 - e].sequence
                empty_first == pairwiseAlignment(<<>>, s)
                empty_second == pairwiseAlignment(s, <<>>)
            IN  /\ ~cerr
                /\ Len(aligned_sequences) = 2
                /\ distance_matrix[0][1] = RatOne
                /\ distance_matrix[1][0] = RatOne
                /\ ~empty_first.ub /\ ~empty_second.ub
                /\ empty_first.first = GapRow(Len(s)) /\ empty_first.second = s
                /\ empty_second.first = s /\ empty_second.second = GapRow(Len(s))

\* an empty sequence aligned with one of several residues: the empty one
\* comes back as a row of gaps
C13_Witness ==
    /\ calls > 0
    /\ PairWithEmpty(1)
    /\ Len(sequences[2].sequence) >= 3
    /\ aligned_sequences[1].sequence = GapRow(Len(sequences[2].sequence))
    /\ aligned_sequences[2].sequence = sequences[2].sequence

\* the input of the README example
ReadmeExample ==
    MkSequences(<<<<"A","T","C","G","A","T","C","G","A","T","C","G">>,
                  <<"A","T","C","G","A","A","C","G","A","T","C","G">>,
                  <<"A","T","C","G","A","T","C","G","A","A","C","G">>>>)

\* C14: for the input of the README example alignSequences returns three
\* sequences, each of length >= 12 and each equal to its input once '-' is
\* removed, with a single-digit number of gaps; the output equals the input
\* unchanged, final_length is 12 and total_gaps is 0.
C14_ReadmeExample ==
    (calls > 0 /\ sequences = ReadmeExample) =>
        /\ Len(aligned_sequences) = 3
        /\ \A i \in 1 .. 3 :
               /\ Len(aligned_sequences[i].sequence) >= 12
               /\ StripGaps(aligned_sequences[i].sequence) = sequences[i].sequence
        /\ GapCharsIn(aligned_sequences) <= 9
        /\ aligned_sequences = sequences
        /\ getAlignmentStats = [total_gaps |-> 0, final_length |-> 12]

\* the call on the README example has returned the three records
C14_Witness ==
    /\ calls > 0
    /\ sequences = ReadmeExample
    /\ ~cerr
    /\ Len(aligned_sequences) = 3
    /\ Len(profiles) = 5
    /\ final_length = 12

(***************************************************************************)
(* Properties of the scoring of gaps (SpecPair).                           *)
(***************************************************************************)
\* the score of column k of an aligned pair when the first column of a run of
\* gaps in one row costs `open` and every further column of the run `extend`
GapRunColumn(row1, row2, k, open, extend) ==
    IF row1[k] = GAP
    THEN (IF k > 1 /\ row1[k - 1] = GAP THEN extend ELSE open)
    ELSE IF row2[k] = GAP
    THEN (IF k > 1 /\ row2[k - 1] = GAP THEN extend ELSE open)
    ELSE IF toupper(row1[k]) = toupper(row2[k]) THEN 2 ELSE 0 - 1

RECURSIVE GapRunScore(_, _, _, _, _)
GapRunScore(row1, row2, k, open, extend) ==
    IF k > Len(row1) THEN 0
    ELSE GapRunColumn(row1, row2, k, open, extend)
         + GapRunScore(row1, row2, k + 1, open, extend)

\* the score of a run of k gap columns
RunOfGaps(k, open, extend) == IF k = 0 THEN 0 ELSE open + (k - 1) * extend

\* the matrix and the returned pair score gaps with these two costs
GapsScoredBy(open, extend) ==
    /\ \A i \in 0 .. Len(p_seq1) : p_dp[i][0] = RunOfGaps(i, open, extend)
    /\ \A j \in 0 .. Len(p_seq2) : p_dp[0][j] = RunOfGaps(j, open, extend)
    /\ p_dp[Len(p_seq1)][Len(p_seq2)] = GapRunScore(p_t.first, p_t.second, 1, open, extend)

DiagonalCandidate(i, j) ==
    p_dp[i - 1][j - 1] + (IF SameIgnoringCase(p_seq1[i], p_seq2[j]) THEN 2 ELSE 0 - 1)

VerticalCandidate(i, j) == p_dp[i - 1][j] - 2

HorizontalCandidate(i, j) == p_dp[i][j - 1] - 2

BorderInitialised ==
    /\ DOMAIN p_dp = 0 .. Len(p_seq1)
    /\ \A i \in 0 .. Len(p_seq1) :
           /\ DOMAIN p_dp[i] = 0 .. Len(p_seq2)
           /\ p_dp[i][0] = (0 - 2) * i
    /\ \A j \in 0 .. Len(p_seq2) : p_dp[0][j] = (0 - 2) * j
    /\ p_dp[0][0] = 0

RecurrenceHolds ==
    \A i \in 1 .. Len(p_seq1) : \A j \in 1 .. Len(p_seq2) :
        LET d == DiagonalCandidate(i, j)
            v == VerticalCandidate(i, j)
            h == HorizontalCandidate(i, j)
        IN  /\ p_dp[i][j] >= d /\ p_dp[i][j] >= v /\ p_dp[i][j] >= h
            /\ p_dp[i][j] \in {d, v, h}

\* C16: the score matrix of pairwiseAlignment has S[0][0] = 0, S[i][0] = -2*i,
\* S[0][j] = -2*j and, for 1 <= i <= m and 1 <= j <= n, S[i][j] = the maximum of
\* S[i-1][j-1] + (2 if a[i-1], b[j-1] are equal ignoring case, else -1),
\* S[i-1][j] - 2 and S[i][j-1] - 2: every gap column costs a flat -2 and
\* gap_extension_penalty enters no cell.
C16_Recurrence ==
    /\ p_pc \in {"fill", "trace", "ub", "done"} => BorderInitialised
    /\ p_pc \in {"trace", "ub", "done"} => RecurrenceHolds

\* a filled matrix in which one cell takes its value from the diagonal alone,
\* one from the vertical alone and one from the horizontal alone
C16_Witness ==
    /\ p_pc = "done"
    /\ \E i \in 1 .. Len(p_seq1) : \E j \in 1 .. Len(p_seq2) :
           /\ p_dp[i][j] = DiagonalCandidate(i, j)
           /\ p_dp[i][j] > VerticalCandidate(i, j)
           /\ p_dp[i][j] > HorizontalCandidate(i, j)
    /\ \E i \in 1 .. Len(p_seq1) : \E j \in 1 .. Len(p_seq2) :
           /\ p_dp[i][j] = VerticalCandidate(i, j)
           /\ p_dp[i][j] > DiagonalCandidate(i, j)
           /\ p_dp[i][j] > HorizontalCandidate(i, j)
    /\ \E i \in 1 .. Len(p_seq1) : \E j \in 1 .. Len(p_seq2) :
           /\ p_dp[i][j] = HorizontalCandidate(i, j)
           /\ p_dp[i][j] > DiagonalCandidate(i, j)
           /\ p_dp[i][j] > VerticalCandidate(i, j)

(***************************************************************************)
(* Properties of the UPGMA loop (SpecTree).                                *)
(***************************************************************************)
RECURSIVE SumOfDistances(_)
\* the sum of g_dm[a][b] over a set of index pairs
SumOfDistances(pairs) ==
    IF pairs = {} THEN RatZero
    ELSE LET pr == CHOOSE x \in pairs : TRUE
         IN  RatAdd(g_dm[pr[1]][pr[2]], SumOfDistances(pairs \ {pr}))

\* the members of the node at position k of the active list (1-based)
MembersAt(k) ==
    LET mem == g_st.arena[g_st.nodes[k]].sequences
    IN  {mem[x] : x \in 1 .. Len(mem)}

\* the arithmetic mean of g_dm[a][b], a a member of the node at position k
\* and b a member of the node at position l
MeanDistance(k, l) ==
    RatDivInt(SumOfDistances(MembersAt(k) \X MembersAt(l)),
              Cardinality(MembersAt(k)) * Cardinality(MembersAt(l)))

\* (k, l) is met before (i, j) when positions are scanned in ascending order
ScannedBefore(k, l, i, j) == k < i \/ (k = i /\ l < j)

\* the pair at positions i < j is the closest one, and the first one met
\* among those as close
FirstClosest(i, j) ==
    \A k \in 1 .. Len(g_st.nodes) : \A l \in (k + 1) .. Len(g_st.nodes) :
        /\ RatLeq(MeanDistance(i, j), MeanDistance(k, l))
        /\ ScannedBefore(k, l, i, j) => RatLess(MeanDistance(i, j), MeanDistance(k, l))

\* this step has merged the nodes at positions i and j of the active list
Merged(i, j) ==
    LET new_node == g_st'.arena[Len(g_st'.arena)]
    IN  /\ Len(g_st'.arena) = Len(g_st.arena) + 1
        /\ new_node.left = g_st.nodes[i]
        /\ new_node.right = g_st.nodes[j]

RECURSIVE NodesBelow(_)
\* the number of calls of progressiveAlignment made for the subtree of `node`
NodesBelow(node) ==
    IF node = 0 THEN 1
    ELSE LET nd == guide_tree.arena[node] IN
         IF nd.left # 0 /\ nd.right # 0
         THEN NodesBelow(nd.left) + NodesBelow(nd.right) + 1
         ELSE 1

RECURSIVE Merges(_, _)
\* for every internal node below `node`, whose profiles start at position
\* `start` of `profiles`: the positions of the profiles of its left child, of
\* its right child and of the node itself, with the node
Merges(node, start) ==
    IF node = 0 THEN {}
    ELSE LET nd == guide_tree.arena[node] IN
         IF nd.left # 0 /\ nd.right # 0
         THEN LET nl == NodesBelow(nd.left)
                  nr == NodesBelow(nd.right)
              IN  {[p1 |-> start + nl - 1, p2 |-> start + nl + nr - 1,
                    merged |-> start + nl + nr, node |-> node]}
                  \cup Merges(nd.left, start) \cup Merges(nd.right, start + nl)
         ELSE {}

\* the number of characters other than '-' among the first pos of a row
NonGapsUpTo(row, pos) == Cardinality({x \in 1 .. pos : row[x] # GAP})

\* what the side P contributes to output column pos, given its row of the
\* aligned consensus pair: its next unused column times its num_sequences
Contribution(P, row, pos) ==
    IF row[pos] # GAP
    THEN [freq |-> [base \in 1 .. 4 |->
                       P.frequencies[NonGapsUpTo(row, pos)][base] * P.num_sequences],
          gap |-> P.gap_frequencies[NonGapsUpTo(row, pos)] * P.num_sequences]
    ELSE [freq |-> [base \in 1 .. 4 |-> 0], gap |-> 0]

\* R is P1 and P2 combined along the aligned pair of their consensus strings
CombinedAlong(P1, P2, R) ==
    LET pair == pairwiseAlignment(generateConsensusFromProfile(P1),
                                  generateConsensusFromProfile(P2))
        total == P1.num_sequences + P2.num_sequences
    IN  /\ R.length = Len(pair.first)
        /\ R.num_sequences = total
        /\ Len(R.frequencies) = R.length /\ Len(R.gap_frequencies) = R.length
        /\ NonGapsUpTo(pair.first, Len(pair.first)) = P1.length
        /\ NonGapsUpTo(pair.second, Len(pair.second)) = P2.length
        /\ \A pos \in 1 .. R.length :
               LET c1 == Contribution(P1, pair.first, pos)
                   c2 == Contribution(P2, pair.second, pos)
               IN  /\ \A base \in 1 .. 4 :
                          R.frequencies[pos][base] = (c1.freq[base] + c2.freq[base]) \div total
                   /\ R.gap_frequencies[pos] = (c1.gap + c2.gap) \div total

\* C18: in alignProfiles(P1, P2) the k-th non-gap column of P1's row of the
\* aligned consensus pair receives P1's k-th column (symbol frequencies and
\* gap frequency) times P1.num_sequences, likewise for P2, and every output
\* column is divided by P1.num_sequences + P2.num_sequences; every column of
\* P1 and of P2 is used exactly once (the position guards never fire).
C18_ProfileMerge ==
    Aligned =>
        /\ Len(profiles) = NodesBelow(guide_tree.root)
        /\ \A mg \in Merges(guide_tree.root, 1) :
               CombinedAlong(profiles[mg.p1], profiles[mg.p2], profiles[mg.merged])

\* three sequences aligned: the root merges a profile of two sequences with a
\* leaf, and the aligned consensus pair has gaps
C18_Witness ==
    /\ Aligned
    /\ Len(sequences) = 3
    /\ Cardinality(Merges(guide_tree.root, 1)) = 2
    /\ \E mg \in Merges(guide_tree.root, 1) :
           /\ mg.node = guide_tree.root
           /\ {profiles[mg.p1].num_sequences, profiles[mg.p2].num_sequences} = {1, 2}
           /\ profiles[mg.merged].length > profiles[mg.p1].length
           /\ profiles[mg.merged].length > profiles[mg.p2].length

RECURSIVE LeafProfiles(_, _)
\* for every leaf below `node`, whose profiles start at position `start` of
\* `profiles`: the position of its profile and the input index it holds
LeafProfiles(node, start) ==
    IF node = 0 THEN {}
    ELSE LET nd == guide_tree.arena[node] IN
         IF nd.left # 0 /\ nd.right # 0
         THEN LeafProfiles(nd.left, start)
              \cup LeafProfiles(nd.right, start + NodesBelow(nd.left))
         ELSE IF Len(nd.sequences) > 0
         THEN {[at |-> start, index |-> nd.sequences[1]]}
         ELSE {}

\* exactly one of the four symbol frequencies of the column is 1.0, the
\* others and the gap frequency are 0
OneHotSymbol(P, pos) ==
    /\ P.gap_frequencies[pos] = 0
    /\ \E base \in 1 .. 4 :
           /\ P.frequencies[pos][base] = One
           /\ \A other \in (1 .. 4) \ {base} : P.frequencies[pos][other] = 0

\* the column has gap frequency 1.0 and all symbol frequencies 0
OneHotGap(P, pos) ==
    /\ P.gap_frequencies[pos] = One
    /\ \A base \in 1 .. 4 : P.frequencies[pos][base] = 0

\* the slot of A, T, C, G in either case is 1.0
OwnSlot(P, pos, c) ==
    /\ c \in {"A", "a"} => P.frequencies[pos][1] = One
    /\ c \in {"T", "t"} => P.frequencies[pos][2] = One
    /\ c \in {"C", "c"} => P.frequencies[pos][3] = One
    /\ c \in {"G", "g"} => P.frequencies[pos][4] = One

\* C19: createProfile(s) returns a profile of length |s| with num_sequences 1
\* in which every column of a non-gap symbol has frequency 1.0 in that
\* symbol's slot and 0 elsewhere (gap frequency 0) and every column of a '-'
\* has gap frequency 1.0 and all symbol frequencies 0, for every residue
\* character the reader accepts.
C19_OneHotProfile ==
    (Aligned /\ NonEmptyInput(sequences)) =>
        \A lf \in LeafProfiles(guide_tree.root, 1) :
            LET s == sequences[lf.index + 1].sequence
                P == profiles[lf.at]
            IN  /\ P.length = Len(s)
                /\ P.num_sequences = 1
                /\ Len(P.frequencies) = Len(s) /\ Len(P.gap_frequencies) = Len(s)
                /\ \A pos \in 1 .. Len(s) :
                       IF s[pos] = GAP THEN OneHotGap(P, pos)
                       ELSE OneHotSymbol(P, pos) /\ OwnSlot(P, pos, s[pos])

\* the symbols in the order of their slots
SlotSymbols == <<"A", "T", "C", "G">>

\* the consensus symbol of a column: the first slot holding the highest
\* frequency, 'A' when all four are zero
ConsensusSymbol(column) ==
    LET best == CHOOSE b \in 1 .. 4 :
                    /\ \A o \in 1 .. 4 : column[o] <= column[b]
                    /\ \A o \in 1 .. (b - 1) : column[o] < column[b]
    IN  SlotSymbols[best]

\* the consensus of the final profile, the one the last call of
\* progressiveAlignment returned
RootConsensus ==
    LET P == profiles[Len(profiles)]
    IN  [pos \in 1 .. P.length |-> ConsensusSymbol(P.frequencies[pos])]

\* C20: alignSequences returns exactly N records in input order with headers
\* unchanged, and the residues of record i are the first component of
\* pairwiseAlignment(input_i, C), C being the consensus of the final (root)
\* profile, the same string for every i: an output depends on the other
\* inputs only through C.
C20_RealignedToConsensus ==
    Aligned =>
        /\ Len(aligned_sequences) = Len(sequences)
        /\ \A i \in 1 .. Len(sequences) :
               /\ aligned_sequences[i].header = sequences[i].header
               /\ aligned_sequences[i].sequence
                      = pairwiseAlignment(sequences[i].sequence, RootConsensus).first

\* three different sequences aligned, none of them the consensus, gaps both
\* at the start of one output and at the end of another
C20_Witness ==
    /\ Aligned
    /\ Len(sequences) = 3
    /\ \A i \in 1 .. 3 : sequences[i].sequence # RootConsensus
    /\ \A i \in 1 .. 3 : \A j \in 1 .. 3 :
           i # j => sequences[i].sequence # sequences[j].sequence
    /\ \E i \in 1 .. 3 : Head(aligned_sequences[i].sequence) = GAP
    /\ \E i \in 1 .. 3 :
           aligned_sequences[i].sequence[Len(aligned_sequences[i].sequence)] = GAP

\* the consensus string of a profile
ConsensusOf(P) == [pos \in 1 .. P.length |-> ConsensusSymbol(P.frequencies[pos])]

\* C21: alignProfiles(P1, P2) returns a new profile whose length is the length
\* of the pairwise alignment of consensus(P1) with consensus(P2), which is
\* >= max(P1.length, P2.length) and <= P1.length + P2.length, and whose
\* num_sequences is P1.num_sequences + P2.num_sequences; P1 and P2 are left
\* unchanged (a leaf's profile is still the one createProfile returned).
C21_MergedShape ==
    Aligned =>
        /\ \A mg \in Merges(guide_tree.root, 1) :
               LET P1 == profiles[mg.p1]
                   P2 == profiles[mg.p2]
                   R == profiles[mg.merged]
               IN  /\ R.length = Len(pairwiseAlignment(ConsensusOf(P1), ConsensusOf(P2)).first)
                   /\ R.length >= P1.length /\ R.length >= P2.length
                   /\ R.length <= P1.length + P2.length
                   /\ R.num_sequences = P1.num_sequences + P2.num_sequences
        /\ \A lf \in LeafProfiles(guide_tree.root, 1) :
               profiles[lf.at] = createProfile(sequences[lf.index + 1].sequence)

\* a merge of a profile of two sequences with a leaf whose result is longer
\* than both and shorter than the two together
C21_Witness ==
    /\ Aligned
    /\ \E mg \in Merges(guide_tree.root, 1) :
           LET P1 == profiles[mg.p1]
               P2 == profiles[mg.p2]
               R == profiles[mg.merged]
           IN  /\ P1.num_sequences + P2.num_sequences = 3
               /\ R.length > P1.length /\ R.length > P2.length
               /\ R.length < P1.length + P2.length

RECURSIVE LeavesBelow(_)
\* the number of leaves of the guide tree below `node`
LeavesBelow(node) ==
    IF node = 0 THEN 0
    ELSE LET nd == guide_tree.arena[node] IN
         IF nd.left = 0 /\ nd.right = 0 THEN 1
         ELSE LeavesBelow(nd.left) + LeavesBelow(nd.right)

\* the length of the longest input sequence
LongestInput ==
    CHOOSE l \in {Len(sequences[i].sequence) : i \in 1 .. Len(sequences)} :
        \A i \in 1 .. Len(sequences) : Len(sequences[i].sequence) <= l

\* C22: progressiveAlignment walks the guide tree post-order: a leaf yields
\* createProfile of the sequence at its index, an internal node yields
\* alignProfiles(profile of the left subtree, profile of the right subtree);
\* a node's profile has num_sequences = the number of leaves below the node,
\* so the root profile has num_sequences = N and length >= the longest input.
C22_PostOrderWalk ==
    Aligned =>
        /\ Len(profiles) = Len(guide_tree.arena)
        /\ \A lf \in LeafProfiles(guide_tree.root, 1) :
               /\ profiles[lf.at] = createProfile(sequences[lf.index + 1].sequence)
               /\ profiles[lf.at].num_sequences = 1
        /\ \A mg \in Merges(guide_tree.root, 1) :
               /\ mg.p1 < mg.p2 /\ mg.merged = mg.p2 + 1
               /\ profiles[mg.merged] = alignProfiles(profiles[mg.p1], profiles[mg.p2])
               /\ profiles[mg.merged].num_sequences = LeavesBelow(mg.node)
        /\ Cardinality(LeafProfiles(guide_tree.root, 1)) = Len(sequences)
        /\ profiles[Len(profiles)].num_sequences = Len(sequences)
        /\ profiles[Len(profiles)].length >= LongestInput

\* three sequences: one child of the root is a leaf and the other an internal
\* node over two sequences, and the root profile is longer than every input
C22_Witness ==
    /\ Aligned
    /\ Len(sequences) = 3
    /\ Len(profiles) = 5
    /\ profiles[5].num_sequences = 3
    /\ profiles[5].length > LongestInput
    /\ \E mg \in Merges(guide_tree.root, 1) :
           mg.node # guide_tree.root /\ profiles[mg.merged].num_sequences = 2

\* the slot of a symbol of "ATCG", 0 for any other character
SlotOf(c) ==
    IF c \in {SlotSymbols[b] : b \in 1 .. 4}
    THEN CHOOSE b \in 1 .. 4 : SlotSymbols[b] = c
    ELSE 0

\* c is the consensus character of a column of four symbol frequencies
IsConsensusOf(c, column) ==
    /\ SlotOf(c) \in 1 .. 4
    /\ IF \A b \in 1 .. 4 : column[b] = 0
       THEN c = "A"
       ELSE /\ \A b \in 1 .. 4 : column[b] <= column[SlotOf(c)]
            /\ \A b \in 1 .. (SlotOf(c) - 1) : column[b] < column[SlotOf(c)]

\* the profile with every gap frequency replaced by g
WithGapFrequency(P, g) == [P EXCEPT !.gap_frequencies = [pos \in 1 .. P.length |-> g]]

\* C23: the consensus of a profile has exactly one character per column: the
\* symbol of "ATCG" with the highest frequency in the column, the earliest in
\* the order A, T, C, G among several with the highest frequency, 'A' when
\* all four frequencies are zero; it is always one of A, T, C, G, never '-'
\* or 'N', and does not depend on the gap frequencies.
C23_Consensus ==
    Aligned =>
        \A k \in 1 .. Len(profiles) :
            LET P == profiles[k]
                consensus == generateConsensusFromProfile(P)
            IN  /\ Len(consensus) = P.length
                /\ \A pos \in 1 .. P.length :
                       /\ consensus[pos] \in {"A", "T", "C", "G"}
                       /\ IsConsensusOf(consensus[pos], P.frequencies[pos])
                /\ generateConsensusFromProfile(WithGapFrequency(P, 0)) = consensus
                /\ generateConsensusFromProfile(WithGapFrequency(P, One)) = consensus

\* a profile with a column in which two symbols share the highest frequency
\* (the consensus is the earlier one) and a profile with a column of zeros
\* only (the consensus is 'A')
C23_Witness ==
    /\ Aligned
    /\ \E k \in 1 .. Len(profiles) : \E pos \in 1 .. profiles[k].length :
           LET column == profiles[k].frequencies[pos]
           IN  \E b1 \in 1 .. 4 : \E b2 \in (b1 + 1) .. 4 :
                   /\ column[b1] = column[b2] /\ column[b1] > 0
                   /\ \A b \in 1 .. 4 : column[b] <= column[b1]
                   /\ generateConsensusFromProfile(profiles[k])[pos] = SlotSymbols[b1]
    /\ \E k \in 1 .. Len(profiles) : \E pos \in 1 .. profiles[k].length :
           /\ \A b \in 1 .. 4 : profiles[k].frequencies[pos][b] = 0
           /\ generateConsensusFromProfile(profiles[k])[pos] = "A"

\* the leaves are as buildGuideTree created them
LeavesKept ==
    g_pc \in {"loop", "done"} =>
        /\ Len(g_st.arena) >= Len(g_seqs)
        /\ \A k \in 1 .. Len(g_seqs) :
               /\ g_st.arena[k].id = k - 1
               /\ g_st.arena[k].distance = RatZero
               /\ g_st.arena[k].left = 0 /\ g_st.arena[k].right = 0
               /\ g_st.arena[k].sequences = <<k - 1>>

\* this step has created the internal node for the nodes at positions i < j
InternalNodeOf(i, j) ==
    LET new_node == g_st'.arena[Len(g_st'.arena)]
    IN  /\ Merged(i, j)
        /\ new_node.id = 0 - 1
        /\ 2 * new_node.distance.num * MeanDistance(i, j).den
               = MeanDistance(i, j).num * new_node.distance.den
        /\ new_node.sequences = g_st.arena[g_st.nodes[i]].sequences
                                    \o g_st.arena[g_st.nodes[j]].sequences
        /\ \A k \in 1 .. Len(g_st.arena) : g_st'.arena[k] = g_st.arena[k]

\* C24: every internal node created by buildGuideTree has distance = half
\* the selected average distance, id = -1, left = the selected node at the
\* lower position of the active list, right = the other selected node, and
\* members = left's members followed by right's members; leaves keep
\* distance 0 and id = their sequence index.
C24_InternalNode ==
    /\ []LeavesKept
    /\ [][(g_pc = "loop" /\ g_st' # g_st) =>
             \E i \in 1 .. Len(g_st.nodes) : \E j \in (i + 1) .. Len(g_st.nodes) :
                 InternalNodeOf(i, j) /\ FirstClosest(i, j)]_vars

\* a finished tree over three sequences whose root joins a leaf with an
\* internal node, both internal nodes at a distance above 0
C24_Witness ==
    /\ g_pc = "done"
    /\ Len(g_seqs) = 3
    /\ Len(g_st.arena) = 5
    /\ RatLess(RatZero, g_st.arena[4].distance)
    /\ RatLess(g_st.arena[4].distance, g_st.arena[5].distance)
    /\ g_st.arena[5].right = 4
    /\ g_st.arena[5].sequences = g_st.arena[g_st.arena[5].left].sequences
                                     \o g_st.arena[4].sequences

\* the positions of the active list at which sequence index s is a member
ActiveHolders(s) ==
    {k \in 1 .. Len(g_st.nodes) :
        \E m \in 1 .. Len(g_st.arena[g_st.nodes[k]].sequences) :
            g_st.arena[g_st.nodes[k]].sequences[m] = s}

\* the member lists of the active nodes partition {0 .. N-1}
ActivePartition ==
    g_pc \in {"loop", "done"} =>
        /\ \A s \in 0 .. (Len(g_seqs) - 1) : Cardinality(ActiveHolders(s)) = 1
        /\ \A k \in 1 .. Len(g_st.nodes) :
               LET members == g_st.arena[g_st.nodes[k]].sequences
               IN  /\ Len(members) >= 1
                   /\ \A m \in 1 .. Len(members) : members[m] \in 0 .. (Len(g_seqs) - 1)
                   /\ \A m1, m2 \in 1 .. Len(members) :
                          m1 # m2 => members[m1] # members[m2]

\* the list without the elements at positions i and j
WithoutPositions(list, i, j) ==
    SelectSeq([k \in 1 .. Len(list) |-> IF k = i \/ k = j THEN 0 ELSE list[k]],
              LAMBDA h : h # 0)

MergesDone == Len(g_st.arena) - Len(g_seqs)

\* the state in which buildGuideTree has returned
TreeReturned ==
    g_pc = "done" =>
        /\ Len(g_seqs) >= 1 =>
               /\ MergesDone = Len(g_seqs) - 1
               /\ Len(g_st.nodes) = 1
               /\ g_root = g_st.nodes[1]
        /\ Len(g_seqs) = 1 =>
               /\ g_st.arena = LeafNodes(1).arena
               /\ g_root = 1
        /\ Len(g_seqs) = 0 => g_root = 0

\* C26: buildGuideTree always terminates: the active list shrinks by exactly
\* one node per loop iteration, so for N >= 1 the loop ends after exactly
\* N - 1 merges with a single active node that is returned as the root; for
\* N = 1 the single leaf is returned without any merge.
C26_Terminates ==
    /\ <>(g_pc = "done")
    /\ []TreeReturned
    /\ [][(g_pc = "loop" /\ g_st' # g_st) =>
             /\ Len(g_st.nodes) > 1
             /\ Len(g_st'.nodes) = Len(g_st.nodes) - 1]_vars
    /\ [][(g_pc = "loop" /\ g_pc' = "done") => Len(g_st.nodes) <= 1]_vars

\* the tree over four sequences has been returned after three merges
C26_Witness ==
    /\ g_pc = "done"
    /\ Len(g_seqs) = 4
    /\ MergesDone = 3
    /\ g_st.nodes = <<7>>
    /\ g_root = 7

(***************************************************************************)
(* Properties of a call with fewer than two sequences (SpecRuns).          *)
(***************************************************************************)
\* run b is the last run before run a that aligned two or more sequences
LastSuccessBefore(b, a) ==
    /\ b < a
    /\ Len(history[b].input) >= 2
    /\ \A c \in (b + 1) .. (a - 1) : Len(history[c].input) < 2

\* what the runs with fewer than two sequences returned and reported
ShortRunsReportOlderValues ==
    \A a \in 1 .. Len(history) :
        Len(history[a].input) < 2 =>
            /\ history[a].output = history[a].input
            /\ history[a].fresh =>
                   history[a].total_gaps = 0 /\ history[a].final_length = 0
            /\ ~history[a].fresh =>
                   \E b \in 1 .. (a - 1) :
                       /\ LastSuccessBefore(b, a)
                       /\ SameStats(history[a], history[b])

\* C27: a call to alignSequences with fewer than 2 sequences returns its
\* input unchanged and leaves total_gaps, final_length and guide_tree exactly
\* as they were, so getAlignmentStats read right after the call reports the
\* values of the previous successful run (0 on a fresh aligner), not values
\* describing this call's input.
C27_ShortInputFrame ==
    /\ []ShortRunsReportOlderValues
    /\ [][(calls' = calls + 1 /\ Len(sequences') < 2) =>
             /\ aligned_sequences' = sequences'
             /\ total_gaps' = total_gaps
             /\ final_length' = final_length
             /\ guide_tree' = guide_tree
             /\ [total_gaps |-> total_gaps', final_length |-> final_length']
                    = getAlignmentStats]_vars

\* a run on one sequence right after a run on two sequences: the statistics
\* read after it are those of the earlier run and do not fit its own input
C27_Witness ==
    /\ Len(history) >= 2
    /\ Len(history[1].input) >= 2
    /\ history[1].total_gaps > 0
    /\ Len(history[2].input) = 1
    /\ NonEmptyInput(history[2].input)
    /\ ~history[2].fresh
    /\ history[2].output = history[2].input
    /\ history[2].total_gaps = history[1].total_gaps
    /\ history[2].final_length = history[1].final_length
    /\ history[2].final_length # Len(history[2].input[1].sequence)
    /\ guide_tree.root # 0

(***************************************************************************)
(* Properties of the mass of the profile columns for inputs over A, T, C,  *)
(* G without gaps (SpecAlign).                                             *)
(***************************************************************************)
\* every input sequence holds the letters A, T, C, G only
OverACGT(seqs) ==
    \A i \in 1 .. Len(seqs) : \A k \in 1 .. Len(seqs[i].sequence) :
        seqs[i].sequence[k] \in {"A", "T", "C", "G"}

\* every gap frequency of every profile is 0
NoGapMass ==
    \A k \in 1 .. Len(profiles) : \A pos \in 1 .. profiles[k].length :
        profiles[k].gap_frequencies[pos] = 0

\* the aligned pair of the consensus strings of the two sides of a merge
ConsensusPair(mg) ==
    pairwiseAlignment(generateConsensusFromProfile(profiles[mg.p1]),
                      generateConsensusFromProfile(profiles[mg.p2]))

\* num_sequences of the side P if it contributes a residue to column pos
SequencesContributing(P, row, pos) == IF row[pos] # GAP THEN P.num_sequences ELSE 0

\* num_sequences of the side P times the mass of the column it contributes
MassContributing(P, row, pos) ==
    IF row[pos] # GAP
    THEN P.num_sequences * ColumnMass(P, NonGapsUpTo(row, pos))
    ELSE 0

\* a column of an internal node of the tree that holds less than mass 1
DeficientColumn(P, row, pos) ==
    /\ row[pos] # GAP
    /\ P.num_sequences >= 2
    /\ ColumnMass(P, NonGapsUpTo(row, pos)) < One

\* the statement for every merge: column mass = (sum of num_sequences of the
\* contributing sides) / (num_sequences of the merged profile)
C28_MassBySequenceCount ==
    (Aligned /\ OverACGT(sequences) /\ NonEmptyInput(sequences)) =>
        /\ NoGapMass
        /\ \A mg \in Merges(guide_tree.root, 1) :
               LET R == profiles[mg.merged]
                   pair == ConsensusPair(mg)
               IN  \A pos \in 1 .. R.length :
                       ColumnMass(R, pos) * R.num_sequences
                           = One * (SequencesContributing(profiles[mg.p1], pair.first, pos)
                                    + SequencesContributing(profiles[mg.p2], pair.second, pos))

\* C28: for gap-free input sequences over A, T, C, G every profile produced
\* during alignSequences has gap frequency 0 in every column: alignProfiles
\* adds no gap mass for the side whose aligned consensus holds '-' in a
\* column, so the mass of a column times the merged num_sequences is the sum,
\* over the sides that contribute a residue, of the side's num_sequences
\* times the mass of the side's column; a leaf's column has mass 1, so a
\* merge of two leaves has mass (number of contributing leaves) / 2.
C28_MassByContributedMass ==
    (Aligned /\ OverACGT(sequences)) =>
        /\ NoGapMass
        /\ \A lf \in LeafProfiles(guide_tree.root, 1) :
               \A pos \in 1 .. profiles[lf.at].length :
                   ColumnMass(profiles[lf.at], pos) = One
        /\ \A mg \in Merges(guide_tree.root, 1) :
               LET R == profiles[mg.merged]
                   pair == ConsensusPair(mg)
               IN  /\ \A pos \in 1 .. R.length :
                          ColumnMass(R, pos) * R.num_sequences
                              = MassContributing(profiles[mg.p1], pair.first, pos)
                                + MassContributing(profiles[mg.p2], pair.second, pos)
                   /\ (profiles[mg.p1].num_sequences = 1 /\ profiles[mg.p2].num_sequences = 1)
                          => \A pos \in 1 .. R.length :
                                 ColumnMass(R, pos) * 2
                                     = One * (SequencesContributing(profiles[mg.p1], pair.first, pos)
                                              + SequencesContributing(profiles[mg.p2], pair.second, pos))

\* three sequences over A, T, C, G: a merge of two leaves has a column that
\* only one of them contributes to, and that column is contributed to the
\* merge above it
C28_Witness ==
    /\ Aligned
    /\ OverACGT(sequences)
    /\ NonEmptyInput(sequences)
    /\ Len(sequences) = 3
    /\ NoGapMass
    /\ \E mg \in Merges(guide_tree.root, 1) :
           /\ profiles[mg.p1].num_sequences = 1 /\ profiles[mg.p2].num_sequences = 1
           /\ \E pos \in 1 .. profiles[mg.merged].length :
                  ColumnMass(profiles[mg.merged], pos) * 2 = One
    /\ \E mg \in Merges(guide_tree.root, 1) :
           \E pos \in 1 .. profiles[mg.merged].length :
               \/ DeficientColumn(profiles[mg.p1], ConsensusPair(mg).first, pos)
               \/ DeficientColumn(profiles[mg.p2], ConsensusPair(mg).second, pos)

(***************************************************************************)
(* Properties of the indices of the traceback loop (SpecPair).             *)
(***************************************************************************)
\* the traceback has not left the matrix and has not read out of range
TraceInRange ==
    /\ p_pc # "ub"
    /\ ~p_t.ub
    /\ p_pc \in {"trace", "done"} =>
           /\ p_t.i \in 0 .. Len(p_seq1)
           /\ p_t.j \in 0 .. Len(p_seq2)
           /\ Len(p_t.first) = Len(p_t.second)
           /\ Len(p_t.first) + p_t.i + p_t.j <= Len(p_seq1) + Len(p_seq2)
    /\ p_pc = "done" =>
           /\ p_t.i = 0 /\ p_t.j = 0
           /\ Len(p_t.first) <= Len(p_seq1) + Len(p_seq2)

\* one iteration of the loop: i + j decreases, the characters read exist and
\* a horizontal step is taken only where it reproduces the cell's score
TraceStepInRange ==
    (p_pc = "trace" /\ p_t' # p_t) =>
        /\ p_t'.i + p_t'.j < p_t.i + p_t.j
        /\ p_t'.i >= 0 /\ p_t'.j >= 0
        /\ Len(p_t'.first) = Len(p_t.first) + 1
        /\ p_t'.i < p_t.i => p_t.i >= 1
        /\ p_t'.j < p_t.j => p_t.j >= 1
        /\ (~DiagonalReproduces(p_t.i, p_t.j) /\ ~VerticalReproduces(p_t.i, p_t.j)) =>
               /\ p_t.j > 0
               /\ p_dp[p_t.i][p_t.j] = p_dp[p_t.i][p_t.j - 1] + gap_penalty
               /\ p_t'.i = p_t.i /\ p_t'.j = p_t.j - 1

\* C29: the traceback loop of pairwiseAlignment ends after at most m + n
\* steps, each step strictly decreasing i + j, and never reads seq1[i-1]
\* with i = 0 nor seq2[j-1] with j = 0: whenever neither the diagonal test
\* nor the vertical test succeeds at a cell, j > 0 holds and the horizontal
\* step reproduces the cell's score.
C29_TracebackInRange ==
    /\ []TraceInRange
    /\ [][TraceStepInRange]_vars

\* the traceback stands, after at least one step, at a cell inside the matrix
\* where neither the diagonal nor the vertical test succeeds
C29_Witness ==
    /\ p_pc = "trace"
    /\ p_t.i > 0 /\ p_t.j > 0
    /\ Len(p_t.first) > 0
    /\ ~DiagonalReproduces(p_t.i, p_t.j)
    /\ ~VerticalReproduces(p_t.i, p_t.j)
    /\ p_dp[p_t.i][p_t.j] = p_dp[p_t.i][p_t.j - 1] + gap_penalty

(***************************************************************************)
(* Properties of the distances of the guide tree as the code computes      *)
(* them, in doubles (SpecTreeIEEE).                                        *)
(***************************************************************************)
\* the distance matrix is symmetric with entries in [0, 1]
SymmetricUnitMatrix ==
    \A i \in 0 .. (Len(g_seqs) - 1) : \A j \in 0 .. (Len(g_seqs) - 1) :
        /\ g_dm[i][j] = g_dm[j][i]
        /\ ~DoubleLess(DoubleOne, g_dm[i][j])

\* the distance of the node with handle k
DistanceOf(k) == g_st.arena[k].distance

\* C30: in the tree built by buildGuideTree from a symmetric distance matrix
\* with entries in [0,1], merge distances never decrease from one merge to
\* the next, so every internal node's distance is >= the distance of each
\* of its two children (leaves have distance 0) and the root has the
\* largest distance in the tree.
C30_MergeDistancesNeverDecrease ==
    (g_pc \in {"loop", "done"} /\ NonEmptyInput(g_seqs) /\ SymmetricUnitMatrix) =>
        /\ \A k \in (Len(g_seqs) + 1) .. (Len(g_st.arena) - 1) :
               ~DoubleLess(DistanceOf(k + 1), DistanceOf(k))
        /\ \A k \in (Len(g_seqs) + 1) .. Len(g_st.arena) :
               /\ ~DoubleLess(DistanceOf(k), DistanceOf(g_st.arena[k].left))
               /\ ~DoubleLess(DistanceOf(k), DistanceOf(g_st.arena[k].right))
        /\ \A k \in 1 .. Len(g_seqs) : DistanceOf(k) = DoubleZero
        /\ (g_pc = "done" /\ g_root # 0) =>
               \A k \in 1 .. Len(g_st.arena) :
                   ~DoubleLess(DistanceOf(g_root), DistanceOf(k))
====
